---- MODULE Spec2Model ----
(***************************************************************************)
(* A model of the finite-element core of the repository:                   *)
(*   backend/app/core/fem_engine.py  (FEMEngine)                           *)
(*   backend/app/core/solvers.py     (AdvancedSolvers)                     *)
(*                                                                         *)
(* Numbers.  The program computes in IEEE doubles; the model computes in   *)
(* exact rationals <<numerator, denominator>> (denominator > 0) extended   *)
(* with NaN == <<0, 0>>, which propagates through every operation as in    *)
(* numpy.  Norms are carried as their squares.  Stiffness is measured in   *)
(* units of 1e9 N/m, so that the program's penalty of 1e12 N/m is 1000;    *)
(* forces are in N and lengths in m, hence E is in units of 1e9 N/m^2 and  *)
(* displacements are in units of 1e-9 m.                                   *)
(* The inputs are drawn so that element lengths are rational and non-zero. *)
(***************************************************************************)
EXTENDS Integers, Sequences, FiniteSets, TLC

VARIABLES
    nodes,          \* FEMEngine.nodes: insertion-ordered dict, a sequence of Node records
    materials,      \* FEMEngine.materials
    sections,       \* FEMEngine.sections
    elements,       \* FEMEngine.elements: insertion-ordered dict
    loads,          \* FEMEngine.loads: list
    constraints,    \* FEMEngine.constraints: list
    dof_map,        \* FEMEngine.dof_map: node id -> six DOF indices (-1 inactive)
    total_dofs,     \* FEMEngine.total_dofs
    K_global,       \* FEMEngine.K_global (None or an N x N matrix)
    M_global,       \* FEMEngine.M_global
    F_global,       \* FEMEngine.F_global
    displacements,  \* FEMEngine.displacements
    reactions,      \* FEMEngine.reactions
    element_forces, \* FEMEngine.element_forces: element id -> force vector
    convergence_history,     \* AdvancedSolvers.convergence_history (squared norms)
    load_displacement_curve, \* AdvancedSolvers.load_displacement_curve
    result,         \* what the last solver call gave its caller
    calls,          \* number of solver calls made so far
    spsolve_empty   \* what the linear solver of this build does with a system
                    \* without unknowns: "unknown" until the first such call,
                    \* then "raises" or "returns"

store == <<nodes, materials, sections, elements, loads, constraints>>
derived == <<dof_map, total_dofs, K_global, M_global, F_global>>
results == <<displacements, reactions, element_forces>>
solver == <<convergence_history, load_displacement_curve>>
vars == <<store, derived, results, solver, result, calls, spsolve_empty>>

None == "None"
\* None where an entity id is expected (ids are positive)
NoId == 0

(***************************************************************************)
(* Bounds of the exploration.                                              *)
(***************************************************************************)
MaxNodes == 3
MaxElements == 2
MaxLoads == 2
MaxConstraints == 2
MaxCalls == 2
MaxIter == 2
MaxLoadSteps == 2

(***************************************************************************)
(* Exact arithmetic with NaN.                                              *)
(***************************************************************************)
NaN == <<0, 0>>
IsNaN(a) == a[2] = 0
Abs(n) == IF n < 0 THEN -n ELSE n

RECURSIVE GCD(_, _)
GCD(a, b) == IF b = 0 THEN a ELSE GCD(b, a % b)

Rat(n, d) ==
    IF d = 0 THEN NaN
    ELSE LET g == GCD(Abs(n), Abs(d))
             s == IF d < 0 THEN -1 ELSE 1
         IN  <<(s * n) \div g, (s * d) \div g>>

R(n) == <<n, 1>>
Zero == R(0)
IsZero(a) == a[1] = 0 /\ a[2] # 0

RAdd(a, b) ==
    IF IsNaN(a) \/ IsNaN(b) THEN NaN
    ELSE IF a[2] = 1 /\ b[2] = 1 THEN <<a[1] + b[1], 1>>
    ELSE LET g == GCD(a[2], b[2])
         IN  Rat(a[1] * (b[2] \div g) + b[1] * (a[2] \div g), (a[2] \div g) * b[2])

RNeg(a) == IF IsNaN(a) THEN NaN ELSE <<-a[1], a[2]>>
RSub(a, b) == RAdd(a, RNeg(b))

RMul(a, b) ==
    IF IsNaN(a) \/ IsNaN(b) THEN NaN
    ELSE IF a[2] = 1 /\ b[2] = 1 THEN <<a[1] * b[1], 1>>
    ELSE LET g1 == GCD(Abs(a[1]), b[2])
             g2 == GCD(Abs(b[1]), a[2])
         IN  <<(a[1] \div g1) * (b[1] \div g2), (a[2] \div g2) * (b[2] \div g1)>>

\* x / 0 is NaN here; the inputs never divide a non-zero number by zero.
RDiv(a, b) ==
    IF IsNaN(a) \/ IsNaN(b) \/ b[1] = 0 THEN NaN
    ELSE RMul(a, IF b[1] < 0 THEN <<-b[2], -b[1]>> ELSE <<b[2], b[1]>>)

RAbs(a) == <<Abs(a[1]), a[2]>>
\* IEEE comparison: false when either side is NaN.
RLess(a, b) == ~IsNaN(a) /\ ~IsNaN(b) /\ a[1] * b[2] < b[1] * a[2]

\* np.sqrt on the perfect squares the inputs produce.
Sqrt(n) == CHOOSE r \in 0..n : r * r = n

(***************************************************************************)
(* Vectors and matrices: sequences, and sequences of rows.  Vec forces a   *)
(* constructed function into an explicit sequence.                         *)
(***************************************************************************)
Vec(s) == s \o <<>>

RECURSIVE SumSeq(_)
SumSeq(s) == IF s = <<>> THEN Zero ELSE RAdd(s[1], SumSeq(Tail(s)))

Zeros(n) == Vec([i \in 1..n |-> Zero])
ZeroMatrix(n) == Vec([i \in 1..n |-> Zeros(n)])
NaNs(n) == Vec([i \in 1..n |-> NaN])

VAdd(u, v) == Vec([i \in 1..Len(u) |-> RAdd(u[i], v[i])])
VSub(u, v) == Vec([i \in 1..Len(u) |-> RSub(u[i], v[i])])
VScale(a, v) == Vec([i \in 1..Len(v) |-> RMul(a, v[i])])

\* Dense product A @ B (numpy): 0 * NaN is NaN, nothing is skipped.
MatMul(A, B) ==
    LET n == Len(A)
        m == Len(B)
        p == IF m = 0 THEN 0 ELSE Len(B[1])
    IN  Vec([i \in 1..n |-> Vec([j \in 1..p |->
            SumSeq([k \in 1..m |-> RMul(A[i][k], B[k][j])])])])

Transpose(A) ==
    LET n == Len(A)
    IN  Vec([j \in 1..n |-> Vec([i \in 1..n |-> A[i][j]])])

\* Dense k @ u.
DenseMatVec(A, u) ==
    Vec([i \in 1..Len(A) |-> SumSeq([k \in 1..Len(u) |-> RMul(A[i][k], u[k])])])

\* Sparse (csr) K @ u: only the stored, i.e. non-zero, entries of a row take part,
\* so a row without entries gives 0 even when u holds NaN.
SparseMatVec(A, u) ==
    Vec([i \in 1..Len(A) |->
        SumSeq([k \in 1..Len(u) |-> IF IsZero(A[i][k]) THEN Zero ELSE RMul(A[i][k], u[k])])])

\* Squared Euclidean norm (np.linalg.norm, squared).
SqNorm(v) == SumSeq([i \in 1..Len(v) |-> RMul(v[i], v[i])])

\* np.max(np.abs(v)) for a non-empty v: NaN as soon as an entry is NaN.
RECURSIVE MaxAbs(_)
MaxAbs(v) ==
    IF Len(v) = 1 THEN RAbs(v[1])
    ELSE LET m == MaxAbs(Tail(v))
         IN  IF IsNaN(v[1]) \/ IsNaN(m) THEN NaN
             ELSE IF RLess(m, RAbs(v[1])) THEN RAbs(v[1]) ELSE m

(***************************************************************************)
(* Insertion-ordered dictionaries keyed by .id (Python dict): assigning to *)
(* an existing key keeps its position and replaces its value.              *)
(***************************************************************************)
Ids(d) == {d[i].id : i \in 1..Len(d)}
Has(d, id) == id \in Ids(d)
Get(d, id) == d[CHOOSE i \in 1..Len(d) : d[i].id = id]
Put(d, e) ==
    IF Has(d, e.id) THEN Vec([i \in 1..Len(d) |-> IF d[i].id = e.id THEN e ELSE d[i]])
    ELSE Append(d, e)

(***************************************************************************)
(* FEMEngine._setup_dof_mapping                                            *)
(***************************************************************************)
\* The index a slot gets, and the counter after the slot.
SlotIndex(active, dof_counter) == IF active THEN dof_counter ELSE -1
MutSlotCounter(active, dof_counter) == dof_counter + 1
SlotCounter(active, dof_counter) == IF active THEN dof_counter + 1 ELSE dof_counter

\* The inner loop over node.dofs: [dofs |-> node_dofs, counter |-> dof_counter].
RECURSIVE node_dofs(_, _, _)
node_dofs(mask, i, dof_counter) ==
    IF i > Len(mask) THEN [dofs |-> <<>>, counter |-> dof_counter]
    ELSE LET rest == node_dofs(mask, i + 1, SlotCounter(mask[i], dof_counter))
         IN  [dofs |-> <<SlotIndex(mask[i], dof_counter)>> \o rest.dofs,
              counter |-> rest.counter]

MapPut(m, id, v) == [k \in (DOMAIN m) \cup {id} |-> IF k = id THEN v ELSE m[k]]

\* The loop over self.nodes.items(), in insertion order; entries of dof_map for
\* other keys are left as they are.
RECURSIVE setup_dof_mapping(_, _, _, _)
setup_dof_mapping(ns, i, dof_counter, map) ==
    IF i > Len(ns) THEN [dof_map |-> map, total_dofs |-> dof_counter]
    ELSE LET nd == node_dofs(ns[i].dofs, 1, dof_counter)
         IN  setup_dof_mapping(ns, i + 1, nd.counter, MapPut(map, ns[i].id, nd.dofs))

(***************************************************************************)
(* Element kernel: FEMEngine._truss_stiffness, _beam_stiffness,            *)
(* _frame_stiffness, _get_element_stiffness_matrix.  A kernel gives        *)
(* [exc |-> "", k |-> matrix, dofs |-> indices] or [exc |-> exception].     *)
(***************************************************************************)
Raise(e) == [exc |-> e]

\* The four dictionary lookups that open both kernels and the lookups
\* self.dof_map[node_id] for every node_id of element.nodes that close them (dof_map
\* has the ids of self.nodes): any of them raises KeyError.
LookupError(element, ns, mats, secs) ==
    \/ \E n \in 1..Len(element.nodes) : ~Has(ns, element.nodes[n])
    \/ ~Has(mats, element.material_id)
    \/ ~Has(secs, element.section_id)

\* Element length L = sqrt(dx^2 + dy^2 + dz^2).
ElementLength(node1, node2) ==
    Sqrt((node2.x - node1.x) * (node2.x - node1.x)
         + (node2.y - node1.y) * (node2.y - node1.y)
         + (node2.z - node1.z) * (node2.z - node1.z))

\* dofs.extend(self.dof_map[node_id]) for node_id in element.nodes
RECURSIVE ElementDofs(_, _)
ElementDofs(node_ids, map) ==
    IF node_ids = <<>> THEN <<>>
    ELSE map[node_ids[1]] \o ElementDofs(Tail(node_ids), map)

\* A matrix of size n from a list of assignments <<row, column, value>> (0-based,
\* as in the code) on np.zeros((n, n)).
FromEntries(n, entries) ==
    Vec([i \in 1..n |-> Vec([j \in 1..n |->
        LET hit == {t \in 1..Len(entries) : entries[t][1] = i - 1 /\ entries[t][2] = j - 1}
        IN  IF hit = {} THEN Zero
            ELSE entries[CHOOSE t \in hit : \A q \in hit : q <= t][3]])])

\* T.T @ k_local @ T
Rotate(T, k_local) == MatMul(MatMul(Transpose(T), k_local), T)

\* The direction cosines written into the transformation matrix T.
truss_transformation(cx, cy, cz) ==
    FromEntries(6, <<
        <<0, 0, cx>>, <<3, 3, cx>>,
        <<0, 1, cy>>, <<3, 4, cy>>,
        <<0, 2, cz>>, <<3, 5, cz>>,
        <<1, 0, RNeg(cy)>>, <<4, 3, RNeg(cy)>>,
        <<1, 1, cx>>, <<4, 4, cx>>,
        <<2, 0, RNeg(cz)>>, <<5, 3, RNeg(cz)>>,
        <<2, 2, cx>>, <<5, 5, cx>> >>)

\* k_expanded: the 2x2 axial block E*A/L * [[1, -1], [-1, 1]] on rows/columns 0, 3.
truss_k_expanded(ea_l) ==
    FromEntries(6, <<
        <<0, 0, ea_l>>, <<3, 3, ea_l>>,
        <<0, 3, RNeg(ea_l)>>, <<3, 0, RNeg(ea_l)>> >>)

\* The kernel once the four lookups have succeeded.
truss_kernel(node1, node2, material, section, dofs) ==
    LET L == R(ElementLength(node1, node2))
    IN  [exc |-> "",
         k |-> Rotate(truss_transformation(RDiv(R(node2.x - node1.x), L),
                                           RDiv(R(node2.y - node1.y), L),
                                           RDiv(R(node2.z - node1.z), L)),
                      truss_k_expanded(RDiv(R(material.E * section.A), L))),
         dofs |-> dofs]

truss_stiffness(element, ns, mats, secs, map) ==
    IF LookupError(element, ns, mats, secs) THEN Raise("KeyError")
    ELSE truss_kernel(Get(ns, element.nodes[1]), Get(ns, element.nodes[2]),
                      Get(mats, element.material_id), Get(secs, element.section_id),
                      ElementDofs(element.nodes, map))

\* Material.G
ShearModulus(material) ==
    RDiv(R(material.E), RMul(R(2), RAdd(R(1), material.nu)))

\* The assignments to k_local, group by group.
BeamAxial(E, A, L) ==
    LET v == RDiv(R(E * A), L)
    IN  << <<0, 0, v>>, <<6, 6, v>>, <<0, 6, RNeg(v)>>, <<6, 0, RNeg(v)>> >>

\* <<12EI/L^3, 6EI/L^2, 4EI/L, 2EI/L>>
BendingCoefficients(E, I, L) ==
    << RDiv(R(12 * E * I), RMul(L, RMul(L, L))),
       RDiv(R(6 * E * I), RMul(L, L)),
       RDiv(R(4 * E * I), L),
       RDiv(R(2 * E * I), L) >>

BendingYEntries(c) ==
    << <<2, 2, c[1]>>, <<8, 8, c[1]>>, <<2, 8, RNeg(c[1])>>, <<8, 2, RNeg(c[1])>>,
       <<4, 4, c[3]>>, <<10, 10, c[3]>>, <<4, 10, c[4]>>, <<10, 4, c[4]>>,
       <<2, 4, c[2]>>, <<4, 2, c[2]>>, <<2, 10, c[2]>>, <<10, 2, c[2]>>,
       <<8, 4, RNeg(c[2])>>, <<4, 8, RNeg(c[2])>>,
       <<8, 10, RNeg(c[2])>>, <<10, 8, RNeg(c[2])>> >>

BeamBendingY(E, Iy, L) == BendingYEntries(BendingCoefficients(E, Iy, L))

BendingZEntries(c) ==
    << <<1, 1, c[1]>>, <<7, 7, c[1]>>, <<1, 7, RNeg(c[1])>>, <<7, 1, RNeg(c[1])>>,
       <<5, 5, c[3]>>, <<11, 11, c[3]>>, <<5, 11, c[4]>>, <<11, 5, c[4]>>,
       <<1, 5, RNeg(c[2])>>, <<5, 1, RNeg(c[2])>>,
       <<1, 11, RNeg(c[2])>>, <<11, 1, RNeg(c[2])>>,
       <<7, 5, c[2]>>, <<5, 7, c[2]>>, <<7, 11, c[2]>>, <<11, 7, c[2]>> >>

MutBeamBendingZ(E, Iz, L) ==
    SelectSeq(BendingZEntries(BendingCoefficients(E, Iz, L)),
              LAMBDA t : ~(t[1] = 5 /\ t[2] = 1))

BeamBendingZ(E, Iz, L) == BendingZEntries(BendingCoefficients(E, Iz, L))

BeamTorsion(G, J, L) ==
    LET v == RDiv(RMul(G, R(J)), L)
    IN  << <<3, 3, v>>, <<9, 9, v>>, <<3, 9, RNeg(v)>>, <<9, 3, RNeg(v)>> >>

\* T = np.eye(12)
Eye(n) == Vec([i \in 1..n |-> Vec([j \in 1..n |-> IF i = j THEN R(1) ELSE Zero])])

\* The kernel once the four lookups have succeeded.
beam_kernel(material, section, L, dofs) ==
    [exc |-> "",
     k |-> Rotate(Eye(12),
                  FromEntries(12,
                      BeamAxial(material.E, section.A, L)
                      \o BeamBendingY(material.E, section.Iy, L)
                      \o BeamBendingZ(material.E, section.Iz, L)
                      \o BeamTorsion(ShearModulus(material), section.J, L))),
     dofs |-> dofs]

beam_stiffness(element, ns, mats, secs, map) ==
    IF LookupError(element, ns, mats, secs) THEN Raise("KeyError")
    ELSE beam_kernel(Get(mats, element.material_id), Get(secs, element.section_id),
                     R(ElementLength(Get(ns, element.nodes[1]), Get(ns, element.nodes[2]))),
                     ElementDofs(element.nodes, map))

frame_stiffness(element, ns, mats, secs, map) ==
    beam_stiffness(element, ns, mats, secs, map)

get_element_stiffness_matrix(element, ns, mats, secs, map) ==
    IF element.type = "truss" THEN truss_stiffness(element, ns, mats, secs, map)
    ELSE IF element.type = "beam" THEN beam_stiffness(element, ns, mats, secs, map)
    ELSE IF element.type = "frame" THEN frame_stiffness(element, ns, mats, secs, map)
    ELSE Raise("NotImplementedError")

(***************************************************************************)
(* Assembly: FEMEngine._assemble_global_stiffness, _assemble_global_force, *)
(* _assemble_global_mass.                                                  *)
(***************************************************************************)
\* active_dofs = [dof for dof in dofs if dof >= 0]
ActiveDofs(dofs) == SelectSeq(dofs, LAMBDA d : d >= 0)

\* K + csr_matrix((k_elem.flatten(), (rows.flatten(), cols.flatten()))): entry (a, b)
\* of k_elem lands on (active[a], active[b]); entries on one position are summed.
ScatterAdd(K, k, active) ==
    LET n == Len(K)
        at == Vec([i \in 1..n |->
                 SelectSeq([a \in 1..Len(active) |-> a], LAMBDA a : active[a] = i - 1)])
    IN  Vec([i \in 1..n |-> Vec([j \in 1..n |->
            IF at[i] = <<>> \/ at[j] = <<>> THEN K[i][j]
            ELSE RAdd(K[i][j],
                      SumSeq([a \in 1..Len(at[i]) |->
                          SumSeq([b \in 1..Len(at[j]) |-> k[at[i][a]][at[j][b]]])]))])])

\* What the loop starts from: csr_matrix((total_dofs, total_dofs)).
MutStiffnessStart(K_old, n) == IF calls > 0 THEN K_old ELSE ZeroMatrix(n)
StiffnessStart(K_old, n) == ZeroMatrix(n)

\* The loop over self.elements.values(); K is self.K_global so far.  The sparse
\* constructor raises ValueError when k_elem.flatten() and the index arrays differ
\* in length.
RECURSIVE assemble_elements(_, _, _, _, _, _, _)
\* One pass of the loop body, given the element's kernel ke.
assemble_element(es, i, K, ns, mats, secs, map, ke) ==
    IF ke.exc # "" THEN [exc |-> ke.exc, K |-> K]
    ELSE LET active_dofs == ActiveDofs(ke.dofs)
         IN  IF Len(active_dofs) = 0
             THEN assemble_elements(es, i + 1, K, ns, mats, secs, map)
             ELSE IF Len(active_dofs) * Len(active_dofs) # Len(ke.k) * Len(ke.k)
             THEN [exc |-> "ValueError", K |-> K]
             ELSE assemble_elements(es, i + 1, ScatterAdd(K, ke.k, active_dofs),
                                    ns, mats, secs, map)

assemble_elements(es, i, K, ns, mats, secs, map) ==
    IF i > Len(es) THEN [exc |-> "", K |-> K]
    ELSE assemble_element(es, i, K, ns, mats, secs, map,
                          get_element_stiffness_matrix(es[i], ns, mats, secs, map))

assemble_global_stiffness(es, ns, mats, secs, map, n, K_old) ==
    assemble_elements(es, 1, StiffnessStart(K_old, n), ns, mats, secs, map)

\* The zip over (load.values, node_dofs) for one load.
MutAddLoadValues(F, values, dofs) ==
    Vec([d \in 1..Len(F) |->
        RAdd(F[d], SumSeq([i \in 1..Len(dofs) |->
                      IF dofs[i] = d - 1 \/ (dofs[i] = -1 /\ d = Len(F))
                      THEN R(values[i]) ELSE Zero]))])
AddLoadValues(F, values, dofs) ==
    Vec([d \in 1..Len(F) |->
        RAdd(F[d], SumSeq([i \in 1..Len(dofs) |->
                      IF dofs[i] = d - 1 THEN R(values[i]) ELSE Zero]))])

\* The loop over self.loads; F is self.F_global so far (it is updated in place, so
\* a KeyError leaves the loads before it added).
RECURSIVE assemble_loads(_, _, _, _)
assemble_loads(ls, i, F, map) ==
    IF i > Len(ls) THEN [exc |-> "", F |-> F]
    ELSE IF ls[i].node_id = NoId THEN assemble_loads(ls, i + 1, F, map)
    ELSE IF ls[i].node_id \notin DOMAIN map THEN [exc |-> "KeyError", F |-> F]
    ELSE assemble_loads(ls, i + 1, AddLoadValues(F, ls[i].values, map[ls[i].node_id]), map)

assemble_global_force(ls, map, n) == assemble_loads(ls, 1, Zeros(n), map)

\* nodal_mass = material.rho * section.A * L / 2
MutNodalMass(material, section, L) == R(material.rho * section.A * L)
NodalMass(material, section, L) == Rat(material.rho * section.A * L, 2)

\* The two loops "for node_id in element.nodes: for i in range(3)": the mass that
\* lands on DOF d (0-based).
MutMassOnDof(node_ids, map, d, nodal_mass) ==
    SumSeq([n \in 1..Len(node_ids) |->
        SumSeq([i \in 1..6 |-> IF map[node_ids[n]][i] = d THEN nodal_mass ELSE Zero])])
MassOnDof(node_ids, map, d, nodal_mass) ==
    SumSeq([n \in 1..Len(node_ids) |->
        SumSeq([i \in 1..3 |-> IF map[node_ids[n]][i] = d THEN nodal_mass ELSE Zero])])

\* The loop over self.elements.values(); M is self.M_global so far.
RECURSIVE assemble_masses(_, _, _, _, _, _, _)
assemble_masses(es, i, M, ns, mats, secs, map) ==
    IF i > Len(es) THEN [exc |-> "", M |-> M]
    ELSE IF ~Has(mats, es[i].material_id) THEN [exc |-> "KeyError", M |-> M]
    ELSE IF ~Has(secs, es[i].section_id)
         THEN assemble_masses(es, i + 1, M, ns, mats, secs, map)
    ELSE IF ~Has(ns, es[i].nodes[1]) \/ ~Has(ns, es[i].nodes[2])
         THEN [exc |-> "KeyError", M |-> M]
    ELSE LET nodal_mass == NodalMass(Get(mats, es[i].material_id),
                                     Get(secs, es[i].section_id),
                                     ElementLength(Get(ns, es[i].nodes[1]),
                                                   Get(ns, es[i].nodes[2])))
             M2 == Vec([r \in 1..Len(M) |-> Vec([c \in 1..Len(M) |->
                      IF r = c
                      THEN RAdd(M[r][c], MassOnDof(es[i].nodes, map, r - 1, nodal_mass))
                      ELSE M[r][c]])])
         IN  assemble_masses(es, i + 1, M2, ns, mats, secs, map)

assemble_global_mass(es, ns, mats, secs, map, n) ==
    assemble_masses(es, 1, ZeroMatrix(n), ns, mats, secs, map)

(***************************************************************************)
(* Constraints by penalty: FEMEngine._apply_constraints and                *)
(* AdvancedSolvers._apply_constraints_nonlinear.                           *)
(***************************************************************************)
penalty == 1000
penalty_nonlinear == 1000

\* The zip over (constraint.dofs, node_dofs) for one constraint, on (K, F).
MutPenaltyStep(KF, constraint, dofs, kappa) ==
    LET hit(d) == {i \in 1..Len(dofs) : dofs[i] = d - 1}
        n == Len(KF.F)
    IN  [K |-> Vec([r \in 1..n |-> Vec([c \in 1..n |->
                 IF r = c /\ hit(r) # {}
                 THEN RAdd(KF.K[r][c], R(kappa * Cardinality(hit(r))))
                 ELSE KF.K[r][c]])]),
         F |-> Vec([r \in 1..n |->
                 RAdd(KF.F[r], SumSeq([i \in 1..Len(dofs) |->
                     IF i \in hit(r) THEN R(kappa * constraint.values[i]) ELSE Zero]))])]
PenaltyStep(KF, constraint, dofs, kappa) ==
    LET hit(d) == {i \in 1..Len(dofs) : i <= Len(constraint.dofs)
                      /\ constraint.dofs[i] /\ dofs[i] = d - 1}
        n == Len(KF.F)
    IN  [K |-> Vec([r \in 1..n |-> Vec([c \in 1..n |->
                 IF r = c /\ hit(r) # {}
                 THEN RAdd(KF.K[r][c], R(kappa * Cardinality(hit(r))))
                 ELSE KF.K[r][c]])]),
         F |-> Vec([r \in 1..n |->
                 RAdd(KF.F[r], SumSeq([i \in 1..Len(dofs) |->
                     IF i \in hit(r) THEN R(kappa * constraint.values[i]) ELSE Zero]))])]

RECURSIVE constrain(_, _, _, _, _)
constrain(cs, i, KF, map, kappa) ==
    IF i > Len(cs) THEN [exc |-> "", K |-> KF.K, F |-> KF.F]
    ELSE IF cs[i].node_id \notin DOMAIN map THEN [exc |-> "KeyError"]
    ELSE constrain(cs, i + 1, PenaltyStep(KF, cs[i], map[cs[i].node_id], kappa), map, kappa)

apply_constraints(K, F, cs, map) == constrain(cs, 1, [K |-> K, F |-> F], map, penalty)

apply_constraints_nonlinear(K, F, cs, map) ==
    constrain(cs, 1, [K |-> K, F |-> F], map, penalty_nonlinear)

(***************************************************************************)
(* scipy.sparse.linalg.spsolve: the solution of A x = b, and a vector of   *)
(* NaN when A is singular (scipy warns "Matrix is exactly singular" and    *)
(* fills the result with NaN; it does not raise).  Gauss-Jordan            *)
(* elimination, columns taken by increasing diagonal magnitude.            *)
(***************************************************************************)
RECURSIVE InsertByDiagonal(_, _, _)
InsertByDiagonal(order, d, A) ==
    IF order = <<>> THEN <<d>>
    ELSE IF RLess(RAbs(A[d][d]), RAbs(A[order[1]][order[1]])) THEN <<d>> \o order
    ELSE <<order[1]>> \o InsertByDiagonal(Tail(order), d, A)

RECURSIVE ColumnOrder(_, _)
ColumnOrder(A, n) ==
    IF n = 0 THEN <<>> ELSE InsertByDiagonal(ColumnOrder(A, n - 1), n, A)

RECURSIVE Eliminate(_, _, _, _)
Eliminate(M, order, k, rowOf) ==
    LET n == Len(M)
    IN  IF k > n
        THEN Vec([c \in 1..n |-> RDiv(M[rowOf[c]][n + 1], M[rowOf[c]][c])])
        ELSE LET c == order[k]
                 used == {rowOf[order[q]] : q \in 1..(k - 1)}
                 cand == {r \in (1..n) \ used : ~IsZero(M[r][c])}
             IN  IF cand = {} THEN NaNs(n)
                 ELSE LET p == IF c \in cand THEN c
                               ELSE CHOOSE r \in cand : \A q \in cand : r <= q
                          Nx == Vec([i \in 1..n |->
                                  IF i = p \/ IsZero(M[i][c]) THEN M[i]
                                  ELSE LET f == RDiv(M[i][c], M[p][c])
                                       IN  Vec([j \in 1..(n + 1) |->
                                             IF IsZero(M[p][j]) THEN M[i][j]
                                             ELSE RSub(M[i][j], RMul(f, M[p][j]))])])
                      IN  Eliminate(Nx, order, k + 1, [rowOf EXCEPT ![c] = p])

spsolve(A, b) ==
    LET n == Len(b)
    IN  Eliminate(Vec([i \in 1..n |-> Vec([j \in 1..(n + 1) |->
                      IF j <= n THEN A[i][j] ELSE b[i]])]),
                  ColumnOrder(A, n), 1, [c \in 1..n |-> 0])

(***************************************************************************)
(* FEMEngine._calculate_element_forces                                     *)
(***************************************************************************)
RECURSIVE element_force_loop(_, _, _, _, _, _, _, _)
\* One pass of the loop body, given the element's kernel ke.
element_force(es, i, ef, u, ns, mats, secs, map, ke) ==
    IF ke.exc # "" THEN [exc |-> ke.exc, ef |-> ef]
    ELSE LET active_dofs == ActiveDofs(ke.dofs)
             u_elem == Vec([a \in 1..Len(active_dofs) |-> u[active_dofs[a] + 1]])
         IN  IF Len(active_dofs) = 0
             THEN element_force_loop(es, i + 1, ef, u, ns, mats, secs, map)
             ELSE IF Len(active_dofs) # Len(ke.k)
             THEN [exc |-> "ValueError", ef |-> ef]
             ELSE element_force_loop(es, i + 1,
                      MapPut(ef, es[i].id, DenseMatVec(ke.k, u_elem)),
                      u, ns, mats, secs, map)

element_force_loop(es, i, ef, u, ns, mats, secs, map) ==
    IF i > Len(es) THEN [exc |-> "", ef |-> ef]
    ELSE element_force(es, i, ef, u, ns, mats, secs, map,
                       get_element_stiffness_matrix(es[i], ns, mats, secs, map))

calculate_element_forces(es, ef, u, ns, mats, secs, map) ==
    element_force_loop(es, 1, ef, u, ns, mats, secs, map)

(***************************************************************************)
(* Comparisons of products that do not fit a machine integer: non-negative *)
(* integers as little-endian sequences of base-100 digits.                 *)
(***************************************************************************)
RECURSIVE BigOf(_)
BigOf(n) == IF n = 0 THEN <<>> ELSE <<n % 100>> \o BigOf(n \div 100)

RECURSIVE BigTimes(_, _, _)
BigTimes(b, m, carry) ==
    IF b = <<>> THEN BigOf(carry)
    ELSE LET t == b[1] * m + carry
         IN  <<t % 100>> \o BigTimes(Tail(b), m, t \div 100)

RECURSIVE BigProduct(_)
BigProduct(fs) ==
    IF Len(fs) = 1 THEN BigOf(fs[1])
    ELSE BigTimes(BigProduct(SubSeq(fs, 1, Len(fs) - 1)), fs[Len(fs)], 0)

RECURSIVE BigLess(_, _)
BigLess(a, b) ==
    IF Len(a) # Len(b) THEN Len(a) < Len(b)
    ELSE IF a = <<>> THEN FALSE
    ELSE IF a[Len(a)] # b[Len(b)] THEN a[Len(a)] < b[Len(b)]
    ELSE BigLess(SubSeq(a, 1, Len(a) - 1), SubSeq(b, 1, Len(b) - 1))

\* xs[1] * ... * xs[n] < ys[1] * ... * ys[m], all factors non-negative.
ProductLess(xs, ys) ==
    IF \E i \in 1..Len(ys) : ys[i] = 0 THEN FALSE
    ELSE IF \E i \in 1..Len(xs) : xs[i] = 0 THEN TRUE
    ELSE BigLess(BigProduct(xs), BigProduct(ys))

\* norm(a) < f * norm(b), given the squared norms asq, bsq and a factor f >= 0
\* (IEEE: false when a NaN is involved).
NormLess(asq, f, bsq) ==
    /\ ~IsNaN(asq) /\ ~IsNaN(f) /\ ~IsNaN(bsq)
    /\ ProductLess(<<asq[1], bsq[2], f[2], f[2]>>, <<bsq[1], asq[2], f[1], f[1]>>)

(***************************************************************************)
(* FEMEngine.solve_static.  A run gives the values the call leaves in the  *)
(* engine and what the caller gets: a record with outcome "success" or     *)
(* "failure" (the dictionaries the method returns) or "raised" (an         *)
(* exception that leaves the method).                                      *)
(***************************************************************************)
Success(op, payload) == [op |-> op, outcome |-> "success", payload |-> payload]
Failure(op, error) == [op |-> op, outcome |-> "failure", error |-> error]
Raised(op, error) == [op |-> op, outcome |-> "raised", error |-> error]

\* self.reactions = self.K_global @ self.displacements - self.F_global
Reactions(K, u, F) == VSub(SparseMatVec(K, u), F)

\* The run is a chain of stages, each taking the values the stages before it left:
\* st is the engine state so far, emptyRaises says whether spsolve raises on a
\* system without unknowns (the source does not decide it).  Exceptions met before
\* the try block leave the method.

\* self.displacements, self.reactions, self._calculate_element_forces(), the return
\* statement and the except clause; u is what spsolve gave.
static_forces(st, u) ==
    LET ef == calculate_element_forces(elements, element_forces, u,
                                       nodes, materials, sections, st.dof_map)
    IN  [st |-> [st EXCEPT !.displacements = u,
                           !.reactions = Reactions(st.K_global, u, st.F_global),
                           !.element_forces = ef.ef],
         res |-> IF ef.exc # "" THEN Failure("solve_static", ef.exc)
                 ELSE IF st.total_dofs = 0 THEN Failure("solve_static", "ValueError")
                 ELSE Success("solve_static",
                        [displacements |-> u, max_displacement |-> MaxAbs(u),
                         total_dofs |-> st.total_dofs])]

\* K_constrained = self.K_global.copy() and F_constrained = self.F_global.copy():
\* what the attribute of the engine holds once the penalties have been added to the
\* copy.  Without the copy the attribute would be the penalized array itself.
MutKept(original, constrained) == constrained
Kept(original, constrained) == original

\* spsolve on what self._apply_constraints() returned, c; st holds the assembled
\* K_global and F_global.
static_constrained(st, c, emptyRaises) ==
    IF c.exc # "" THEN [st |-> st, res |-> Raised("solve_static", c.exc)]
    ELSE IF st.total_dofs = 0 /\ emptyRaises
    THEN [st |-> st, res |-> Failure("solve_static", "ValueError")]
    ELSE static_forces([st EXCEPT !.K_global = Kept(st.K_global, c.K),
                                  !.F_global = Kept(st.F_global, c.F)],
                       IF st.total_dofs = 0 THEN <<>> ELSE spsolve(c.K, c.F))

\* self._assemble_global_force() and self._apply_constraints(); aK is what
\* _assemble_global_stiffness gave.
static_solve(st, aK, emptyRaises) ==
    LET aF == assemble_global_force(loads, st.dof_map, st.total_dofs)
        sF == [st EXCEPT !.K_global = aK.K, !.F_global = aF.F]
    IN  IF aK.exc # ""
        THEN [st |-> [st EXCEPT !.K_global = aK.K], res |-> Raised("solve_static", aK.exc)]
        ELSE IF aF.exc # "" THEN [st |-> sF, res |-> Raised("solve_static", aF.exc)]
        ELSE static_constrained(sF, apply_constraints(aK.K, aF.F, constraints, st.dof_map),
                                emptyRaises)

\* self._setup_dof_mapping() and self._assemble_global_stiffness()
static_run(emptyRaises) ==
    LET m == setup_dof_mapping(nodes, 1, 0, dof_map)
    IN  static_solve([dof_map |-> m.dof_map, total_dofs |-> m.total_dofs,
                      K_global |-> K_global, F_global |-> F_global,
                      displacements |-> displacements, reactions |-> reactions,
                      element_forces |-> element_forces],
                     assemble_global_stiffness(elements, nodes, materials, sections,
                                               m.dof_map, m.total_dofs, K_global),
                     emptyRaises)

(***************************************************************************)
(* AdvancedSolvers.solve_nonlinear_static with _update_tangent_stiffness,  *)
(* _calculate_internal_force, _line_search.                                *)
(***************************************************************************)
LineSearchIterations == 10
ArmijoDenominator == 10000
ToleranceDenominator == 1000000

\* The load factor is a Python float, a binary64 number, and the loop accumulates
\* it: load_increment = 1.0 / options.load_steps, load_factor += load_increment.
\* A positive binary64 number is [m, e]: m its Precision significand bits, the
\* first of them 1, and e the exponent of the first bit; zero has no bits.  The
\* operations round to nearest, ties to even.
Precision == 53
FloatZero == [m |-> <<>>, e |-> 0]
ZeroBits(n) == [i \in 1..n |-> 0]

\* The carry into bit i of a + b + carry, for two bit sequences of one length: a
\* carry is generated at a later bit (or comes in after the last one) and every
\* bit between propagates it.
CarryInto(a, b, i, carry) ==
    IF \E j \in (i + 1)..(Len(a) + 1) :
           /\ IF j = Len(a) + 1 THEN carry = 1 ELSE a[j] + b[j] = 2
           /\ \A k \in (i + 1)..(j - 1) : a[k] + b[k] = 1
    THEN 1 ELSE 0

\* a + b + carry; the first bit of the sum is the carry out.
AddBits(a, b, carry) ==
    <<CarryInto(a, b, 0, carry)>>
        \o [i \in 1..Len(a) |-> (a[i] + b[i] + CarryInto(a, b, i, carry)) % 2]

RoundUp(kept, e) ==
    LET inc == AddBits(kept, ZeroBits(Precision), 1)
    IN  IF inc[1] = 1 THEN [m |-> SubSeq(inc, 1, Precision), e |-> e + 1]
        ELSE [m |-> Tail(inc), e |-> e]

\* bits, the first of them 1 with exponent e, rounded to Precision bits.
RoundBits(bits, e) ==
    IF Len(bits) <= Precision
    THEN [m |-> bits \o ZeroBits(Precision - Len(bits)), e |-> e]
    ELSE IF /\ bits[Precision + 1] = 1
            /\ \/ bits[Precision] = 1
               \/ \E i \in (Precision + 2)..Len(bits) : bits[i] = 1
    THEN RoundUp(SubSeq(bits, 1, Precision), e)
    ELSE [m |-> SubSeq(bits, 1, Precision), e |-> e]

\* a + b, with a.e >= b.e
FloatSum(a, b) ==
    LET sum == AddBits(a.m \o ZeroBits(a.e - b.e), ZeroBits(a.e - b.e) \o b.m,
                       0)
    IN  IF sum[1] = 1 THEN RoundBits(sum, a.e + 1) ELSE RoundBits(Tail(sum), a.e)

FloatAdd(a, b) ==
    IF a.m = <<>> THEN b
    ELSE IF b.m = <<>> THEN a
    ELSE IF a.e >= b.e THEN FloatSum(a, b)
    ELSE FloatSum(b, a)

\* The eight bits of q < 256.
Byte(q) ==
    <<(q \div 128) % 2, (q \div 64) % 2, (q \div 32) % 2, (q \div 16) % 2,
      (q \div 8) % 2, (q \div 4) % 2, (q \div 2) % 2, q % 2>>

\* The next 8 * bytes quotient bits of r / d, r < d, eight at a time by long
\* division, and a last bit that tells whether a remainder is left.
RECURSIVE DivBits(_, _, _)
DivBits(r, d, bytes) ==
    IF bytes = 0 THEN <<IF r = 0 THEN 0 ELSE 1>>
    ELSE Byte((256 * r) \div d) \o DivBits((256 * r) % d, d, bytes - 1)

\* n / d for integers 0 < n <= d: n is doubled until n / d is in [1, 2); the
\* quotient has its first bit and more than Precision further ones.
RECURSIVE FloatQuotient(_, _, _)
FloatQuotient(n, d, e) ==
    IF n < d THEN FloatQuotient(2 * n, d, e - 1)
    ELSE RoundBits(<<1>> \o DivBits(n - d, d, 7), e)

FloatDiv(n, d) == FloatQuotient(n, d, 0)

\* a < b for binary64 numbers that are not zero
BitsLess(a, b) ==
    \E i \in 1..Len(a) : a[i] < b[i] /\ \A k \in 1..(i - 1) : a[k] = b[k]

FloatLess(a, b) == a.e < b.e \/ (a.e = b.e /\ BitsLess(a.m, b.m))

c1 == Rat(1, ArmijoDenominator)

update_tangent_stiffness(K, u) == K
calculate_internal_force(K, u) == SparseMatVec(K, u)

RECURSIVE line_search_loop(_, _, _, _, _, _, _)
line_search_loop(it, alpha, K, u, du, target_force, current_residual) ==
    IF it = LineSearchIterations THEN alpha
    ELSE LET u_trial == VAdd(u, VScale(alpha, du))
             trial_residual ==
                 SqNorm(VSub(target_force, calculate_internal_force(K, u_trial)))
         IN  IF NormLess(trial_residual, RSub(R(1), RMul(c1, alpha)), current_residual)
             THEN alpha
             ELSE line_search_loop(it + 1, RMul(alpha, Rat(1, 2)), K, u, du,
                                   target_force, current_residual)

\* A line search with nine contractions.
MutLineSearch(K, u, du, target_force) ==
    line_search_loop(1, R(1), K, u, du, target_force,
                     SqNorm(VSub(target_force, calculate_internal_force(K, u))))
line_search(K, u, du, target_force) ==
    line_search_loop(0, R(1), K, u, du, target_force,
                     SqNorm(VSub(target_force, calculate_internal_force(K, u))))

\* The Newton-Raphson loop of one load step, from iteration it on; history is
\* self.convergence_history.  [exc, converged, u, history, iterations]
RECURSIVE newton(_, _, _, _, _, _, _, _)

\* spsolve has given du: u += alpha * du, or u += du
newton_update(it, u, history, target_force, K, cs, map, options, du) ==
    newton(it + 1,
           VAdd(u, VScale(IF options.line_search THEN line_search(K, u, du, target_force)
                          ELSE R(1),
                          du)),
           history, target_force, K, cs, map, options)

\* The check that records the residual norm only when the iteration goes on.
MutNewtonCheck(it, u, history, target_force, K, cs, map, options, c) ==
    IF c.exc # ""
    THEN [exc |-> c.exc, converged |-> FALSE, u |-> u, history |-> history,
          iterations |-> it]
    ELSE IF NormLess(SqNorm(c.F), options.tolerance, R(1))
    THEN [exc |-> "", converged |-> TRUE, u |-> u, history |-> history,
          iterations |-> it + 1]
    ELSE newton_update(it, u, Append(history, SqNorm(c.F)), target_force, K,
                       cs, map, options, spsolve(c.K, c.F))

\* c is what _apply_constraints_nonlinear gave: the convergence check on the norm of
\* the constrained residual.
newton_check(it, u, history, target_force, K, cs, map, options, c) ==
    IF c.exc # ""
    THEN [exc |-> c.exc, converged |-> FALSE, u |-> u, history |-> history,
          iterations |-> it]
    ELSE LET residual_norm == SqNorm(c.F)
         IN  IF NormLess(residual_norm, options.tolerance, R(1))
             THEN [exc |-> "", converged |-> TRUE, u |-> u,
                   history |-> Append(history, residual_norm), iterations |-> it + 1]
             ELSE newton_update(it, u, Append(history, residual_norm), target_force, K,
                                cs, map, options, spsolve(c.K, c.F))

newton(it, u, history, target_force, K, cs, map, options) ==
    IF it = options.max_iterations
    THEN [exc |-> "", converged |-> FALSE, u |-> u, history |-> history, iterations |-> it]
    ELSE newton_check(it, u, history, target_force, K, cs, map, options,
             apply_constraints_nonlinear(
                 update_tangent_stiffness(K, u),
                 VSub(target_force, calculate_internal_force(K, u)), cs, map))

\* load_factor += load_increment.  The load factor is carried twice: float is
\* the binary64 number the program holds, appends to the curve and returns;
\* real is the same sum in the exact arithmetic in which the model computes
\* forces and displacements (the two differ by rounding, far below the
\* tolerance that decides the branches).
Increased(load_factor, options) ==
    [real |-> RAdd(load_factor.real, Rat(1, options.load_steps)),
     float |-> FloatAdd(load_factor.float, FloatDiv(1, options.load_steps))]

\* The load-stepping loop, from step on.  [exc, u, history, curve, load_factor]
RECURSIVE load_steps(_, _, _, _, _, _, _, _, _, _)

\* After the Newton-Raphson loop of the step: nr is what it gave, lf the load factor.
load_step(step, lf, curve, K, F, cs, map, options, nr) ==
    IF nr.exc # ""
    THEN [exc |-> nr.exc, u |-> nr.u, history |-> nr.history, curve |-> curve,
          load_factor |-> lf]
    ELSE IF ~nr.converged
    THEN [exc |-> "No convergence", u |-> nr.u, history |-> nr.history,
          curve |-> curve, load_factor |-> lf]
    ELSE IF Len(nr.u) = 0
    THEN [exc |-> "ValueError", u |-> nr.u, history |-> nr.history,
          curve |-> curve, load_factor |-> lf]
    ELSE load_steps(step + 1, lf, nr.u, nr.history,
                    Append(curve, <<lf.float, MaxAbs(nr.u)>>), K, F, cs, map, options)

load_steps(step, load_factor, u, history, curve, K, F, cs, map, options) ==
    IF step = options.load_steps
    THEN [exc |-> "", u |-> u, history |-> history, curve |-> curve,
          load_factor |-> load_factor]
    ELSE LET lf == Increased(load_factor, options)
         IN  load_step(step, lf, curve, K, F, cs, map, options,
                       newton(0, u, history, VScale(lf.real, F), K, cs, map, options))

\* The run as a chain of stages; st is the state of the engine and the solver so far.

\* self.fem.displacements = u, self.fem._calculate_element_forces(), the return
\* statement and the except clause; ls is what the load steps gave.
nonlinear_forces(st, ls) ==
    LET sL == [st EXCEPT !.convergence_history = ls.history,
                         !.load_displacement_curve = ls.curve]
        ef == calculate_element_forces(elements, element_forces, ls.u,
                                       nodes, materials, sections, st.dof_map)
    IN  IF ls.exc # "" THEN [st |-> sL, res |-> Failure("solve_nonlinear_static", ls.exc)]
        ELSE [st |-> [sL EXCEPT !.displacements = ls.u, !.element_forces = ef.ef],
              res |-> IF ef.exc # "" THEN Failure("solve_nonlinear_static", ef.exc)
                      ELSE Success("solve_nonlinear_static",
                             [displacements |-> ls.u, max_displacement |-> MaxAbs(ls.u),
                              load_factor |-> ls.load_factor.float,
                              convergence_history |-> ls.history,
                              load_displacement_curve |-> ls.curve])]

\* self.fem._assemble_global_force(); then the two histories are emptied and the load
\* steps run.  aK is what _assemble_global_stiffness gave.
nonlinear_steps(st, aK, options) ==
    LET aF == assemble_global_force(loads, st.dof_map, st.total_dofs)
        sF == [st EXCEPT !.K_global = aK.K, !.F_global = aF.F]
    IN  IF aK.exc # ""
        THEN [st |-> [st EXCEPT !.K_global = aK.K],
              res |-> Failure("solve_nonlinear_static", aK.exc)]
        ELSE IF aF.exc # ""
        THEN [st |-> sF, res |-> Failure("solve_nonlinear_static", aF.exc)]
        ELSE nonlinear_forces(sF,
                 load_steps(0, [real |-> Zero, float |-> FloatZero],
                            Zeros(st.total_dofs), <<>>, <<>>,
                            aK.K, aF.F, constraints, st.dof_map, options))

\* self.fem._setup_dof_mapping() and self.fem._assemble_global_stiffness()
nonlinear_run(options) ==
    LET m == setup_dof_mapping(nodes, 1, 0, dof_map)
    IN  nonlinear_steps([dof_map |-> m.dof_map, total_dofs |-> m.total_dofs,
                         K_global |-> K_global, F_global |-> F_global,
                         displacements |-> displacements,
                         element_forces |-> element_forces,
                         convergence_history |-> convergence_history,
                         load_displacement_curve |-> load_displacement_curve],
                        assemble_global_stiffness(elements, nodes, materials, sections,
                                                  m.dof_map, m.total_dofs, K_global),
                        options)

(***************************************************************************)
(* scipy.sparse.linalg.eigsh(A, k, M, sigma=0, which='SM') as the solvers  *)
(* use it: shift-invert factorises A - sigma*M = A, which raises when A is *)
(* singular; k must satisfy 0 < k < n.  The eigenpairs themselves are not  *)
(* computed: a successful call is recorded by the shapes of the arrays it  *)
(* returns, eigenvals of shape (k,) and eigenvecs of shape (n, k), column  *)
(* j being the j-th eigenvector; tolist() keeps the shape, giving n lists  *)
(* of k values for eigenvecs.                                              *)
(***************************************************************************)
eigsh(A, k, M) ==
    IF Len(A) = 0 \/ k <= 0 THEN Raise("ValueError")
    ELSE IF k >= Len(A) THEN Raise("TypeError")
    ELSE IF IsNaN(spsolve(A, Zeros(Len(A)))[1]) THEN Raise("RuntimeError")
    ELSE [exc |-> "", eigenvals |-> <<k>>, eigenvecs |-> <<Len(A), k>>]

(***************************************************************************)
(* FEMEngine.solve_modal                                                   *)
(***************************************************************************)
\* The run as a chain of stages; st is the state of the engine so far.

\* self._assemble_global_mass(), linalg.eigsh, the return statement and the except
\* clause; aK is what _assemble_global_stiffness gave.
modal_eigen(st, aK, num_modes) ==
    LET aM == assemble_global_mass(elements, nodes, materials, sections,
                                   st.dof_map, st.total_dofs)
        eig == eigsh(aK.K, num_modes, aM.M)
    IN  IF aK.exc # ""
        THEN [st |-> [st EXCEPT !.K_global = aK.K], res |-> Failure("solve_modal", aK.exc)]
        ELSE [st |-> [st EXCEPT !.K_global = aK.K, !.M_global = aM.M],
              res |-> IF aM.exc # "" THEN Failure("solve_modal", aM.exc)
                      ELSE IF eig.exc # "" THEN Failure("solve_modal", eig.exc)
                      ELSE Success("solve_modal",
                             [frequencies |-> eig.eigenvals, mode_shapes |-> eig.eigenvecs,
                              num_modes |-> num_modes])]

\* self._setup_dof_mapping() and self._assemble_global_stiffness()
modal_run(num_modes) ==
    LET m == setup_dof_mapping(nodes, 1, 0, dof_map)
    IN  modal_eigen([dof_map |-> m.dof_map, total_dofs |-> m.total_dofs,
                     K_global |-> K_global, M_global |-> M_global],
                    assemble_global_stiffness(elements, nodes, materials, sections,
                                              m.dof_map, m.total_dofs, K_global),
                    num_modes)

(***************************************************************************)
(* AdvancedSolvers.solve_buckling_analysis, _assemble_geometric_stiffness  *)
(***************************************************************************)
assemble_geometric_stiffness(n) == ZeroMatrix(n)

\* linalg.eigsh(-K_geometric, k=num_modes, M=self.fem.K_global, ...), the return
\* statement and the except clauses; -K_geometric is K_geometric again, all its
\* entries being zero.  aK is what _assemble_global_stiffness gave.
buckling_eigen(st, aK, num_modes) ==
    LET eig == eigsh(assemble_geometric_stiffness(st.total_dofs), num_modes, aK.K)
    IN  [st |-> [st EXCEPT !.K_global = aK.K],
         res |-> IF aK.exc # "" THEN Failure("solve_buckling_analysis", aK.exc)
                 ELSE IF eig.exc # ""
                 THEN Failure("solve_buckling_analysis", "Eigenvalue solver failed")
                 ELSE Success("solve_buckling_analysis",
                        [critical_loads |-> eig.eigenvals, buckling_modes |-> eig.eigenvecs,
                         num_modes |-> num_modes])]

\* self.fem._setup_dof_mapping() and self.fem._assemble_global_stiffness()
buckling_run(num_modes) ==
    LET m == setup_dof_mapping(nodes, 1, 0, dof_map)
    IN  buckling_eigen([dof_map |-> m.dof_map, total_dofs |-> m.total_dofs,
                        K_global |-> K_global],
                       assemble_global_stiffness(elements, nodes, materials, sections,
                                                 m.dof_map, m.total_dofs, K_global),
                       num_modes)

(***************************************************************************)
(* AdvancedSolvers.solve_dynamic_response, _assemble_rayleigh_damping,     *)
(* _newmark_integration, _central_difference_integration                   *)
(***************************************************************************)
MAdd(A, B) == Vec([i \in 1..Len(A) |-> VAdd(A[i], B[i])])
MScale(c, A) == Vec([i \in 1..Len(A) |-> VScale(c, A[i])])

\* C = alpha * M + beta * K with alpha = 0.0 and beta = 2 * damping_ratio / 100.0
assemble_rayleigh_damping(damping_ratio, M, K) ==
    MAdd(MScale(Zero, M), MScale(RDiv(RMul(R(2), damping_ratio), R(100)), K))

\* int(t_total / dt) for non-negative quotients
n_steps_of(t_total, dt) == LET q == RDiv(t_total, dt) IN q[1] \div q[2]

\* numpy broadcasting of a force row against vectors of length n:
\* <<ok, row>>
Broadcast(row, n) ==
    IF Len(row) = n THEN [ok |-> TRUE, row |-> row]
    ELSE IF Len(row) = 1 THEN [ok |-> TRUE, row |-> Vec([i \in 1..n |-> row[1]])]
    ELSE [ok |-> FALSE, row |-> row]

\* force_history[min(i, len(force_history) - 1)], i counted from 0
ForceRow(force_history, i, n) ==
    IF Len(force_history) = 0 THEN [ok |-> FALSE, row |-> <<>>]
    ELSE Broadcast(force_history[(IF i < Len(force_history) - 1 THEN i
                             ELSE Len(force_history) - 1) + 1], n)

\* The histories after the Newmark loop from step i on: [exc, u, v, a].  a holds the
\* Newmark parameters <<a0, a1, a2, a3, a4, a5>>.
RECURSIVE newmark_loop(_, _, _, _, _, _, _, _, _, _)

\* a_next, v_next and the three rows stored at i + 1; u_next is what spsolve gave.
newmark_store(i, n_steps, h, force_history, M, C, dt, gamma, a, K_eff, u_next) ==
    LET a_next == VSub(VSub(VScale(a[1], VSub(u_next, h.u[i + 1])),
                            VScale(a[3], h.v[i + 1])),
                       VScale(a[4], h.a[i + 1]))
    IN  newmark_loop(i + 1, n_steps,
            [u |-> Append(h.u, u_next),
             v |-> Append(h.v, VAdd(h.v[i + 1],
                                    VScale(dt, VAdd(VScale(RSub(R(1), gamma), h.a[i + 1]),
                                                    VScale(gamma, a_next))))),
             a |-> Append(h.a, a_next)],
            force_history, M, C, dt, gamma, a, K_eff)

\* F_eff and u_next = spsolve(K_eff, F_eff); F_next is the force row of step i + 1.
newmark_force(i, n_steps, h, force_history, M, C, dt, gamma, a, K_eff, F_next) ==
    IF ~F_next.ok THEN [exc |-> "IndexError"] @@ h
    ELSE newmark_store(i, n_steps, h, force_history, M, C, dt, gamma, a, K_eff,
             spsolve(K_eff,
                 VAdd(VAdd(F_next.row,
                        SparseMatVec(M, VAdd(VAdd(VScale(a[1], h.u[i + 1]),
                                                  VScale(a[3], h.v[i + 1])),
                                             VScale(a[4], h.a[i + 1])))),
                      SparseMatVec(C, VAdd(VAdd(VScale(a[2], h.u[i + 1]),
                                                VScale(a[5], h.v[i + 1])),
                                           VScale(a[6], h.a[i + 1]))))))

newmark_loop(i, n_steps, h, force_history, M, C, dt, gamma, a, K_eff) ==
    IF i = n_steps THEN [exc |-> ""] @@ h
    ELSE newmark_force(i, n_steps, h, force_history, M, C, dt, gamma, a, K_eff,
                       ForceRow(force_history, i + 1, Len(M)))

\* <<a0, a1, a2, a3, a4, a5>>
newmark_parameters(beta, gamma, dt) ==
    << RDiv(R(1), RMul(beta, RMul(dt, dt))),
       RDiv(gamma, RMul(beta, dt)),
       RDiv(R(1), RMul(beta, dt)),
       RSub(RDiv(R(1), RMul(R(2), beta)), R(1)),
       RSub(RDiv(gamma, beta), R(1)),
       RMul(RDiv(dt, R(2)), RSub(RDiv(gamma, beta), R(2))) >>

\* The parameters, K_eff = K + a0 * M + a1 * C, and the loop; a is
\* newmark_parameters(beta, gamma, dt).
newmark_integration(n_steps, h, force_history, K, M, C, dt, gamma, a) ==
    IF IsNaN(a[1]) THEN [exc |-> "ZeroDivisionError"] @@ h
    ELSE newmark_loop(0, n_steps, h, force_history, M, C, dt, gamma, a,
                      MAdd(MAdd(K, MScale(a[1], M)), MScale(a[2], C)))

\* The histories after the central difference loop from step i on: [exc, u, v, a]
RECURSIVE central_difference_loop(_, _, _, _, _, _, _, _)

\* v_next, u_next and the three rows stored at i + 1; a_n is what spsolve gave.
central_difference_store(i, n_steps, h, force_history, K, C, dt, M_eff, a_n) ==
    LET v_next == VAdd(h.v[i + 1], VScale(dt, a_n))
    IN  central_difference_loop(i + 1, n_steps,
            [u |-> Append(h.u, VAdd(h.u[i + 1], VScale(dt, v_next))),
             v |-> Append(h.v, v_next),
             a |-> Append(h.a, a_n)],
            force_history, K, C, dt, M_eff)

\* F_eff = F_n - K @ u_n - C @ v_n and a_n = spsolve(M_eff, F_eff)
central_difference_force(i, n_steps, h, force_history, K, C, dt, M_eff, F_n) ==
    IF ~F_n.ok THEN [exc |-> "IndexError"] @@ h
    ELSE central_difference_store(i, n_steps, h, force_history, K, C, dt, M_eff,
             spsolve(M_eff, VSub(VSub(F_n.row, SparseMatVec(K, h.u[i + 1])),
                                 SparseMatVec(C, h.v[i + 1]))))

central_difference_loop(i, n_steps, h, force_history, K, C, dt, M_eff) ==
    IF i = n_steps THEN [exc |-> ""] @@ h
    ELSE central_difference_force(i, n_steps, h, force_history, K, C, dt, M_eff,
                                  ForceRow(force_history, i, Len(K)))

\* M_eff = M + dt/2 * C
central_difference_integration(n_steps, h, force_history, K, M, C, dt) ==
    central_difference_loop(0, n_steps, h, force_history, K, C, dt,
                            MAdd(M, MScale(RDiv(dt, R(2)), C)))

\* np.max(np.abs(history)) over all rows
RECURSIVE MaxAbsRows(_)
MaxAbsRows(h) ==
    IF Len(h) = 1 THEN MaxAbs(h[1])
    ELSE LET a == MaxAbs(h[1])
             b == MaxAbsRows(Tail(h))
         IN  IF IsNaN(a) \/ IsNaN(b) THEN NaN ELSE IF RLess(a, b) THEN b ELSE a

\* np.linspace(0, t_total, n_steps + 1)
linspace(t_total, n_steps) ==
    IF n_steps = 0 THEN <<Zero>>
    ELSE Vec([i \in 1..(n_steps + 1) |-> RDiv(RMul(t_total, R(i - 1)), R(n_steps))])

\* The run as a chain of stages; st is the state of the engine so far.

\* The response statistics and the return statement, or the result of the integration method
\* when it failed.
dynamic_result(st, options, n_steps, h) ==
    IF h.exc # "" THEN [st |-> st, res |-> Failure("solve_dynamic_response", h.exc)]
    ELSE [st |-> st,
          res |-> Success("solve_dynamic_response",
                    [displacement_history |-> h.u, velocity_history |-> h.v,
                     acceleration_history |-> h.a,
                     time_vector |-> linspace(options.total_time, n_steps),
                     max_displacement |-> MaxAbsRows(h.u),
                     max_velocity |-> MaxAbsRows(h.v),
                     max_acceleration |-> MaxAbsRows(h.a),
                     time_step |-> options.time_step,
                     total_time |-> options.total_time])]

\* The choice of the integration method; h0 holds the initial rows of the histories.
dynamic_integrate(st, time_history_loads, options, n_steps, C_global, h0) ==
    IF options.integration_method = "newmark"
    THEN dynamic_result(st, options, n_steps,
             newmark_integration(n_steps, h0, time_history_loads, st.K_global,
                 st.M_global, C_global, options.time_step, options.gamma,
                 newmark_parameters(options.beta, options.gamma, options.time_step)))
    ELSE IF options.integration_method = "central_difference"
    THEN dynamic_result(st, options, n_steps,
             central_difference_integration(n_steps, h0, time_history_loads, st.K_global,
                                            st.M_global, C_global, options.time_step))
    ELSE [st |-> st, res |-> Failure("solve_dynamic_response", "ValueError")]

\* The damping matrix, n_steps, and a = spsolve(M_global, F0 - C_global @ v -
\* K_global @ u) with u = v = 0; F0 is the first force row, broadcast.
dynamic_initial(st, time_history_loads, options, F0) ==
    IF IsZero(options.time_step)
    THEN [st |-> st, res |-> Failure("solve_dynamic_response", "ZeroDivisionError")]
    ELSE IF ~F0.ok \/ st.total_dofs = 0
    THEN [st |-> st, res |-> Failure("solve_dynamic_response", "ValueError")]
    ELSE dynamic_integrate(st, time_history_loads, options,
             n_steps_of(options.total_time, options.time_step),
             assemble_rayleigh_damping(options.damping_ratio, st.M_global, st.K_global),
             [u |-> <<Zeros(st.total_dofs)>>, v |-> <<Zeros(st.total_dofs)>>,
              a |-> <<spsolve(st.M_global, F0.row)>>])

\* self.fem._assemble_global_mass(); aK is what _assemble_global_stiffness gave.
dynamic_mass(st, aK, time_history_loads, options) ==
    LET aM == assemble_global_mass(elements, nodes, materials, sections,
                                   st.dof_map, st.total_dofs)
        sM == [st EXCEPT !.K_global = aK.K, !.M_global = aM.M]
    IN  IF aK.exc # ""
        THEN [st |-> [st EXCEPT !.K_global = aK.K],
              res |-> Failure("solve_dynamic_response", aK.exc)]
        ELSE IF aM.exc # ""
        THEN [st |-> sM, res |-> Failure("solve_dynamic_response", aM.exc)]
        ELSE dynamic_initial(sM, time_history_loads, options,
                 IF Len(time_history_loads) > 0
                 THEN Broadcast(time_history_loads[1], st.total_dofs)
                 ELSE [ok |-> TRUE, row |-> Zeros(st.total_dofs)])

\* self.fem._setup_dof_mapping() and self.fem._assemble_global_stiffness()
dynamic_run(time_history_loads, options) ==
    LET m == setup_dof_mapping(nodes, 1, 0, dof_map)
    IN  dynamic_mass([dof_map |-> m.dof_map, total_dofs |-> m.total_dofs,
                      K_global |-> K_global, M_global |-> M_global],
                     assemble_global_stiffness(elements, nodes, materials, sections,
                                               m.dof_map, m.total_dofs, K_global),
                     time_history_loads, options)

(***************************************************************************)
(* The inputs.                                                             *)
(***************************************************************************)
AllTrue == <<TRUE, TRUE, TRUE, TRUE, TRUE, TRUE>>
Translations == <<TRUE, TRUE, TRUE, FALSE, FALSE, FALSE>>
NoValues == <<0, 0, 0, 0, 0, 0>>

Node(id, x, y, z, dofs) == [id |-> id, x |-> x, y |-> y, z |-> z, dofs |-> dofs]
Element(id, type, node_ids) ==
    [id |-> id, type |-> type, nodes |-> node_ids, material_id |-> 1, section_id |-> 1]
NodalLoad(node_id, values) ==
    [id |-> 1, type |-> "nodal", node_id |-> node_id, element_id |-> NoId,
     values |-> values]
Constraint(node_id, dofs) == [id |-> 1, node_id |-> node_id, dofs |-> dofs, values |-> NoValues]

Steel == [id |-> 1, E |-> 2, nu |-> Rat(1, 4), rho |-> 2]
Bar == [id |-> 1, A |-> 1, Iy |-> 1, Iz |-> 2, J |-> 1]
\* A material with E = 500, for which the line search meets step lengths down
\* to 2^-10 on numbers that stay small.
Stiff == [id |-> 1, E |-> 500, nu |-> Rat(1, 4), rho |-> 2]

AxialLoad == NodalLoad(2, <<1, 0, 0, 0, 0, 0>>)
TransverseLoad == NodalLoad(2, <<0, 1, 0, 0, 0, 0>>)
ReverseLoad == NodalLoad(2, <<-1, 0, 0, 0, 0, 0>>)
\* Load(node_id=2, values=[0, 0, 0, 1, 0, 0]): a moment, Load(node_id=1,
\* values=[1, 2, 0, 0, 0, 3]): forces and a moment, and Load(element_id=1,
\* type="distributed", values=[1, 1, 0, 0, 0, 0]): an element load without node_id.
MomentLoad == NodalLoad(2, <<0, 0, 0, 1, 0, 0>>)
MixedLoad == NodalLoad(1, <<1, 2, 0, 0, 0, 3>>)
DistributedLoad ==
    [id |-> 1, type |-> "distributed", node_id |-> NoId, element_id |-> 1,
     values |-> <<1, 1, 0, 0, 0, 0>>]
ForceLoads == {AxialLoad, MomentLoad, MixedLoad, DistributedLoad}
FixAll == Constraint(1, AllTrue)
FixAllButX == Constraint(2, <<FALSE, TRUE, TRUE, TRUE, TRUE, TRUE>>)
\* Constraint(node_id=2, dofs=[True] * 6, values=[1, 0, 0, 0, 0, 0]): node 2 held,
\* with a prescribed displacement of u_x.
PrescribeX == [Constraint(2, AllTrue) EXCEPT !.values = <<1, 0, 0, 0, 0, 0>>]

NonlinearOptions(max_iterations, load_step_count, line_search_on) ==
    [max_iterations |-> max_iterations, tolerance |-> Rat(1, ToleranceDenominator),
     load_steps |-> load_step_count, line_search |-> line_search_on]

\* Options of a call during whose Newton iteration number `iteration` the caller
\* sets a cancellation flag.  NonlinearOptions has no such field and
\* solve_nonlinear_static reads the four fields above only, so the flag travels
\* with the input and reaches nothing.
CancelledDuring(options, iteration) == options @@ [cancel_requested_during |-> iteration]

DynamicOptions(method) ==
    [time_step |-> R(1), total_time |-> R(1), damping_ratio |-> Rat(1, 20),
     integration_method |-> method, beta |-> Rat(1, 4), gamma |-> Rat(1, 2)]

\* DynamicOptions(time_step=dt, total_time=t_total, integration_method=method)
DynamicTiming(method, dt, t_total) ==
    [DynamicOptions(method) EXCEPT !.time_step = R(dt), !.total_time = R(t_total)]

(***************************************************************************)
(* The state after FEMEngine() and AdvancedSolvers(engine).                *)
(***************************************************************************)
Init ==
    /\ nodes = <<>> /\ materials = <<>> /\ sections = <<>>
    /\ elements = <<>> /\ loads = <<>> /\ constraints = <<>>
    /\ dof_map = <<>> /\ total_dofs = 0
    /\ K_global = None /\ M_global = None /\ F_global = None
    /\ displacements = None /\ reactions = None /\ element_forces = <<>>
    /\ convergence_history = <<>> /\ load_displacement_curve = <<>>
    /\ result = [op |-> None, outcome |-> None] /\ calls = 0 /\ spsolve_empty = "unknown"

(***************************************************************************)
(* FEMEngine.add_*.  The store is filled before the analyses are run.      *)
(***************************************************************************)
add_node(node) ==
    /\ calls = 0
    /\ Has(nodes, node.id) \/ Len(nodes) < MaxNodes
    /\ nodes' = Put(nodes, node)
    /\ UNCHANGED <<materials, sections, elements, loads, constraints, derived,
                   results, solver, result, calls, spsolve_empty>>

add_material(material) ==
    /\ calls = 0
    /\ materials' = Put(materials, material)
    /\ UNCHANGED <<nodes, sections, elements, loads, constraints, derived,
                   results, solver, result, calls, spsolve_empty>>

add_section(section) ==
    /\ calls = 0
    /\ sections' = Put(sections, section)
    /\ UNCHANGED <<nodes, materials, elements, loads, constraints, derived,
                   results, solver, result, calls, spsolve_empty>>

add_element(element) ==
    /\ calls = 0
    /\ Has(elements, element.id) \/ Len(elements) < MaxElements
    /\ elements' = Put(elements, element)
    /\ UNCHANGED <<nodes, materials, sections, loads, constraints, derived,
                   results, solver, result, calls, spsolve_empty>>

add_load(load) ==
    /\ calls = 0
    /\ Len(loads) < MaxLoads
    /\ loads' = Append(loads, load)
    /\ UNCHANGED <<nodes, materials, sections, elements, constraints, derived,
                   results, solver, result, calls, spsolve_empty>>

add_constraint(constraint) ==
    /\ calls = 0
    /\ Len(constraints) < MaxConstraints
    /\ constraints' = Append(constraints, constraint)
    /\ UNCHANGED <<nodes, materials, sections, elements, loads, derived,
                   results, solver, result, calls, spsolve_empty>>

(***************************************************************************)
(* The five analyses.                                                      *)
(***************************************************************************)
solve_static ==
    /\ calls < MaxCalls
    /\ LET n == setup_dof_mapping(nodes, 1, 0, dof_map).total_dofs
       IN  \E emptyRaises \in IF n = 0 /\ spsolve_empty = "unknown" THEN BOOLEAN
                              ELSE {spsolve_empty = "raises"} :
             \E run \in {static_run(emptyRaises)} :
                 /\ dof_map' = run.st.dof_map
                 /\ total_dofs' = run.st.total_dofs
                 /\ K_global' = run.st.K_global
                 /\ F_global' = run.st.F_global
                 /\ displacements' = run.st.displacements
                 /\ reactions' = run.st.reactions
                 /\ element_forces' = run.st.element_forces
                 /\ result' = run.res
                 /\ spsolve_empty' = IF n = 0 /\ run.res.outcome # "raised"
                                     THEN (IF emptyRaises THEN "raises" ELSE "returns")
                                     ELSE spsolve_empty
    /\ calls' = calls + 1
    /\ UNCHANGED <<store, M_global, solver>>

solve_modal(num_modes) ==
    /\ calls < MaxCalls
    /\ \E run \in {modal_run(num_modes)} :
           /\ dof_map' = run.st.dof_map
           /\ total_dofs' = run.st.total_dofs
           /\ K_global' = run.st.K_global
           /\ M_global' = run.st.M_global
           /\ result' = run.res
    /\ calls' = calls + 1
    /\ UNCHANGED <<store, F_global, results, solver, spsolve_empty>>

solve_nonlinear_static(options) ==
    /\ calls < MaxCalls
    /\ \E run \in {nonlinear_run(options)} :
           /\ dof_map' = run.st.dof_map
           /\ total_dofs' = run.st.total_dofs
           /\ K_global' = run.st.K_global
           /\ F_global' = run.st.F_global
           /\ displacements' = run.st.displacements
           /\ element_forces' = run.st.element_forces
           /\ convergence_history' = run.st.convergence_history
           /\ load_displacement_curve' = run.st.load_displacement_curve
           /\ result' = run.res
    /\ calls' = calls + 1
    /\ UNCHANGED <<store, M_global, reactions, spsolve_empty>>

solve_buckling_analysis(num_modes) ==
    /\ calls < MaxCalls
    /\ \E run \in {buckling_run(num_modes)} :
           /\ dof_map' = run.st.dof_map
           /\ total_dofs' = run.st.total_dofs
           /\ K_global' = run.st.K_global
           /\ result' = run.res
    /\ calls' = calls + 1
    /\ UNCHANGED <<store, M_global, F_global, results, solver, spsolve_empty>>

solve_dynamic_response(time_history_loads, options) ==
    /\ calls < MaxCalls
    /\ \E run \in {dynamic_run(time_history_loads, options)} :
           /\ dof_map' = run.st.dof_map
           /\ total_dofs' = run.st.total_dofs
           /\ K_global' = run.st.K_global
           /\ M_global' = run.st.M_global
           /\ result' = run.res
    /\ calls' = calls + 1
    /\ UNCHANGED <<store, F_global, results, solver, spsolve_empty>>

\* np.sin(2 * np.pi * turns) for a whole number of quarter turns, idealised to
\* its exact value; other arguments are outside the requests of the model.
SinTurns(turns) ==
    IF (4 * turns[1]) % turns[2] # 0 THEN NaN
    ELSE R(<<0, 1, 0, -1>>[(((4 * turns[1]) \div turns[2]) % 4) + 1])

\* The force history run_dynamic_analysis builds for an engine whose total_dofs
\* field reads columns: np.zeros((n_steps + 1, columns)), with the harmonic load
\* in the first column when the request names a frequency and columns > 0.
time_history(request, columns) ==
    LET n_steps == n_steps_of(R(request.total_time), R(request.time_step))
        time_vec == linspace(R(request.total_time), n_steps)
    IN  [k \in 1..(n_steps + 1) |->
            [d \in 1..columns |->
                IF d = 1 /\ request.harmonic
                THEN RMul(request.amplitude,
                          SinTurns(RMul(request.frequency, time_vec[k])))
                ELSE Zero]]

\* POST /dynamic: the engine is the one FEMEngine() and build_model's add_*
\* calls have left, the force history is sized by its total_dofs field, and the
\* solver is run on it.
run_dynamic_analysis(request) ==
    /\ calls = 0
    /\ solve_dynamic_response(
           time_history(request, total_dofs),
           DynamicTiming(request.integration_method, request.time_step,
                         request.total_time))

(***************************************************************************)
(* Spec: any model built from a small stock of entities, some of which do  *)
(* not fit together, under all five analyses.                              *)
(***************************************************************************)
StockNodes == {Node(1, 0, 0, 0, Translations), Node(2, 1, 0, 0, Translations),
               Node(2, 1, 0, 0, AllTrue)}
StockElements == {Element(1, "truss", <<1, 2>>), Element(1, "plate", <<1, 2>>)}
StockHistories == {<<>>, << <<R(1)>> >>}

Next ==
    \/ \E node \in StockNodes : add_node(node)
    \/ add_material(Steel)
    \/ add_section(Bar)
    \/ \E element \in StockElements : add_element(element)
    \/ add_load(AxialLoad)
    \/ add_constraint(FixAll)
    \/ solve_static
    \/ solve_modal(1)
    \/ solve_nonlinear_static(NonlinearOptions(MaxIter, 1, TRUE))
    \/ solve_buckling_analysis(1)
    \/ \E h \in StockHistories : solve_dynamic_response(h, DynamicOptions("newmark"))

Spec == Init /\ [][Next]_vars

(***************************************************************************)
(* SpecAxial: the axial truss of the specification's scenario, between     *)
(* nodes (0,0,0) and (1,0,0) that keep the default mask of six DOFs.       *)
(***************************************************************************)
AxialNodes == {Node(1, 0, 0, 0, AllTrue), Node(2, 1, 0, 0, AllTrue)}

NextAxial ==
    \/ \E node \in AxialNodes : add_node(node)
    \/ add_material(Steel)
    \/ add_section(Bar)
    \/ add_element(Element(1, "truss", <<1, 2>>))
    \/ add_load(AxialLoad)
    \/ \E constraint \in {FixAll, FixAllButX} : add_constraint(constraint)
    \/ solve_static

SpecAxial == Init /\ [][NextAxial]_vars

(***************************************************************************)
(* SpecTruss: the same truss between nodes that have translations only;    *)
(* static and nonlinear analyses.                                          *)
(***************************************************************************)
TrussNodes == {Node(1, 0, 0, 0, Translations), Node(2, 1, 0, 0, Translations)}

NextTruss ==
    \/ \E node \in TrussNodes : add_node(node)
    \/ add_material(Steel)
    \/ add_section(Bar)
    \/ add_element(Element(1, "truss", <<1, 2>>))
    \/ add_load(AxialLoad)
    \/ \E constraint \in {FixAll, FixAllButX} : add_constraint(constraint)
    \/ solve_static
    \/ solve_nonlinear_static(NonlinearOptions(MaxIter, MaxLoadSteps, TRUE))

SpecTruss == Init /\ [][NextTruss]_vars

(***************************************************************************)
(* SpecBeam: beam and frame elements between (0,0,0) and (2,0,0) on nodes  *)
(* with six DOFs; static and modal analyses.                               *)
(***************************************************************************)
BeamNodes == {Node(1, 0, 0, 0, AllTrue), Node(2, 2, 0, 0, AllTrue)}
BeamElements == {Element(1, "beam", <<1, 2>>), Element(2, "frame", <<1, 2>>)}

NextBeam ==
    \/ \E node \in BeamNodes : add_node(node)
    \/ add_material(Steel)
    \/ add_section(Bar)
    \/ \E element \in BeamElements : add_element(element)
    \/ add_load(TransverseLoad)
    \/ add_constraint(FixAll)
    \/ solve_static
    \/ solve_modal(1)

SpecBeam == Init /\ [][NextBeam]_vars

(***************************************************************************)
(* SpecDynamic: a truss and a beam between nodes with translations only,   *)
(* under time integration by both methods, with time steps that do and do  *)
(* not divide the total time and force histories of zero to three rows.    *)
(***************************************************************************)
DynamicElements == {Element(1, "truss", <<1, 2>>), Element(2, "beam", <<1, 2>>)}
DynamicMethods == {"newmark", "central_difference"}
DynamicTimings == {<<1, 1>>, <<1, 2>>, <<2, 3>>}
DynamicHistories == {<<>>, << <<R(1)>> >>, << <<R(1)>>, <<R(2)>> >>,
                     << <<R(1)>>, <<R(2)>>, <<R(3)>> >>}

NextDynamic ==
    \/ \E node \in TrussNodes : add_node(node)
    \/ add_material(Steel)
    \/ add_section(Bar)
    \/ \E element \in DynamicElements : add_element(element)
    \/ \E h \in DynamicHistories : \E method \in DynamicMethods :
           \E t \in DynamicTimings :
               solve_dynamic_response(h, DynamicTiming(method, t[1], t[2]))

SpecDynamic == Init /\ [][NextDynamic]_vars

(***************************************************************************)
(* SpecModal: two beam elements over the node lists [1, 2, 3] and          *)
(* [3, 2, 1], the three nodes having two, four and six active DOFs, so     *)
(* that each element meets twelve active DOFs and K_global, which no       *)
(* analysis but the static ones constrains, can be factorised; static,     *)
(* modal and buckling analyses.                                            *)
(***************************************************************************)
ModalNodes == {Node(1, 0, 0, 0, <<TRUE, TRUE, FALSE, FALSE, FALSE, FALSE>>),
               Node(2, 2, 0, 0, <<TRUE, TRUE, TRUE, TRUE, FALSE, FALSE>>),
               Node(3, 4, 0, 0, AllTrue)}
ModalElements == {Element(1, "beam", <<1, 2, 3>>), Element(2, "beam", <<3, 2, 1>>)}

NextModal ==
    \/ \E node \in ModalNodes : add_node(node)
    \/ add_material(Steel)
    \/ add_section(Bar)
    \/ \E element \in ModalElements : add_element(element)
    \/ add_load(AxialLoad)
    \/ solve_static
    \/ \E num_modes \in 1..2 : solve_modal(num_modes)
    \/ \E num_modes \in 1..2 : solve_buckling_analysis(num_modes)

SpecModal == Init /\ [][NextModal]_vars

(***************************************************************************)
(* SpecRerun: the constrained truss under static and nonlinear analyses,   *)
(* with a load added to the store between two analyses; the caller sets a  *)
(* cancellation flag during the first Newton iteration of every nonlinear  *)
(* analysis.                                                               *)
(***************************************************************************)
\* FEMEngine.add_load on an engine that has already run an analysis.
add_load_between_runs(load) ==
    /\ calls > 0 /\ calls < MaxCalls
    /\ Len(loads) < MaxLoads
    /\ loads' = Append(loads, load)
    /\ UNCHANGED <<nodes, materials, sections, elements, constraints, derived,
                   results, solver, result, calls, spsolve_empty>>

\* FEMEngine.add_node on an engine that has already run an analysis.
add_node_between_runs(node) ==
    /\ calls > 0 /\ calls < MaxCalls
    /\ Has(nodes, node.id) \/ Len(nodes) < MaxNodes
    /\ nodes' = Put(nodes, node)
    /\ UNCHANGED <<materials, sections, elements, loads, constraints, derived,
                   results, solver, result, calls, spsolve_empty>>

NextRerun ==
    \/ \E node \in TrussNodes : add_node(node)
    \/ add_material(Steel)
    \/ add_section(Bar)
    \/ add_element(Element(1, "truss", <<1, 2>>))
    \/ add_load(AxialLoad)
    \/ \E constraint \in {FixAll, FixAllButX} : add_constraint(constraint)
    \/ solve_static
    \/ solve_nonlinear_static(CancelledDuring(NonlinearOptions(MaxIter, 1, TRUE), 1))
    \/ add_load_between_runs(ReverseLoad)

SpecRerun == Init /\ [][NextRerun]_vars

(***************************************************************************)
(* SpecPenalty: the truss between nodes with translations only under       *)
(* static analysis, with constraints that fix inactive slots, that repeat, *)
(* and that prescribe a displacement.                                      *)
(***************************************************************************)
NextPenalty ==
    \/ \E node \in TrussNodes : add_node(node)
    \/ add_material(Steel)
    \/ add_section(Bar)
    \/ add_element(Element(1, "truss", <<1, 2>>))
    \/ add_load(TransverseLoad)
    \/ \E constraint \in {FixAll, FixAllButX, PrescribeX} : add_constraint(constraint)
    \/ solve_static

SpecPenalty == Init /\ [][NextPenalty]_vars

(***************************************************************************)
(* SpecNonlinear: the beam model of SpecModal, whose K_global is regular   *)
(* without constraints, under an axial load and Newton-Raphson analyses    *)
(* with one, two and six load steps, with and without line search.         *)
(***************************************************************************)
\* (max_iterations, load_steps, line_search) of the analyses
NonlinearRuns == {<<1, 6, FALSE>>, <<1, 2, TRUE>>, <<2, 1, FALSE>>, <<2, 2, TRUE>>}

NextNonlinear ==
    \/ \E node \in ModalNodes : add_node(node)
    \/ add_material(Steel)
    \/ add_section(Bar)
    \/ \E element \in ModalElements : add_element(element)
    \/ add_load(AxialLoad)
    \/ \E run \in NonlinearRuns :
           solve_nonlinear_static(NonlinearOptions(run[1], run[2], run[3]))

SpecNonlinear == Init /\ [][NextNonlinear]_vars

(***************************************************************************)
(* SpecLineSearch: the truss with E = 500 under an axial load, with zero   *)
(* and prescribed constraints; every analysis is one Newton-Raphson        *)
(* iteration of one load step with line search, so the only line search    *)
(* of a run starts from u = 0 with the full load as target.                *)
(***************************************************************************)
NextLineSearch ==
    \/ \E node \in TrussNodes : add_node(node)
    \/ add_material(Stiff)
    \/ add_section(Bar)
    \/ add_element(Element(1, "truss", <<1, 2>>))
    \/ add_load(AxialLoad)
    \/ \E constraint \in {FixAll, FixAllButX, PrescribeX} : add_constraint(constraint)
    \/ solve_nonlinear_static(NonlinearOptions(1, 1, TRUE))

SpecLineSearch == Init /\ [][NextLineSearch]_vars

(***************************************************************************)
(* SpecOriented: beam and frame elements of length 2 from the origin along *)
(* global X or along global Y, on nodes with six DOFs; static analyses.    *)
(***************************************************************************)
OrientedNodes == {Node(1, 0, 0, 0, AllTrue), Node(2, 2, 0, 0, AllTrue),
                  Node(2, 0, 2, 0, AllTrue)}

NextOriented ==
    \/ \E node \in OrientedNodes : add_node(node)
    \/ add_material(Steel)
    \/ add_section(Bar)
    \/ \E element \in BeamElements : add_element(element)
    \/ add_load(TransverseLoad)
    \/ add_constraint(FixAll)
    \/ solve_static

SpecOriented == Init /\ [][NextOriented]_vars

(***************************************************************************)
(* SpecCentral: the truss between nodes with translations only under       *)
(* central difference integration of one, two and three steps.             *)
(***************************************************************************)
CentralTimings == {<<1, 1>>, <<1, 2>>, <<1, 3>>}

NextCentral ==
    \/ \E node \in TrussNodes : add_node(node)
    \/ add_material(Steel)
    \/ add_section(Bar)
    \/ add_element(Element(1, "truss", <<1, 2>>))
    \/ \E h \in DynamicHistories : \E t \in CentralTimings :
           solve_dynamic_response(h, DynamicTiming("central_difference", t[1], t[2]))

SpecCentral == Init /\ [][NextCentral]_vars

(***************************************************************************)
(* SpecForce: the truss between nodes with translations only, under nodal  *)
(* forces, moments aimed at the inactive rotations and an element load;    *)
(* loads are also added between two static analyses.                       *)
(***************************************************************************)
NextForce ==
    \/ \E node \in TrussNodes : add_node(node)
    \/ add_material(Steel)
    \/ add_section(Bar)
    \/ add_element(Element(1, "truss", <<1, 2>>))
    \/ \E load \in ForceLoads : add_load(load)
    \/ \E constraint \in {FixAll, FixAllButX} : add_constraint(constraint)
    \/ solve_static
    \/ \E load \in ForceLoads : add_load_between_runs(load)

SpecForce == Init /\ [][NextForce]_vars

(***************************************************************************)
(* SpecHistory: nonlinear analyses of one and two load steps and one and   *)
(* two iterations; between two analyses a load on a node that no model has *)
(* may be added, which makes the force assembly of the next analysis fail. *)
(***************************************************************************)
HistoryRuns == {<<1, 2, FALSE>>, <<2, 1, FALSE>>, <<2, 2, TRUE>>}
StrayLoad == NodalLoad(4, <<1, 0, 0, 0, 0, 0>>)

NextHistory ==
    \/ \E node \in ModalNodes : add_node(node)
    \/ add_material(Steel)
    \/ add_section(Bar)
    \/ \E element \in ModalElements : add_element(element)
    \/ add_load(AxialLoad)
    \/ \E run \in HistoryRuns :
           solve_nonlinear_static(NonlinearOptions(run[1], run[2], run[3]))
    \/ add_load_between_runs(StrayLoad)

SpecHistory == Init /\ [][NextHistory]_vars

(***************************************************************************)
(* SpecGrow: the truss between nodes with translations only, analysed,     *)
(* given a third node, and analysed again.                                 *)
(***************************************************************************)
LateNode == Node(3, 2, 0, 0, Translations)

NextGrow ==
    \/ \E node \in TrussNodes : add_node(node)
    \/ add_material(Steel)
    \/ add_section(Bar)
    \/ add_element(Element(1, "truss", <<1, 2>>))
    \/ add_load(AxialLoad)
    \/ \E constraint \in {FixAll, FixAllButX} : add_constraint(constraint)
    \/ solve_static
    \/ solve_modal(1)
    \/ solve_nonlinear_static(NonlinearOptions(1, 1, FALSE))
    \/ add_node_between_runs(LateNode)

SpecGrow == Init /\ [][NextGrow]_vars

(***************************************************************************)
(* SpecApi: the dynamic analysis endpoint on the models build_model makes  *)
(* of the truss entities, with and without a harmonic load of a quarter    *)
(* turn per time unit.                                                     *)
(***************************************************************************)
DynamicRequests ==
    {[time_step |-> 1, total_time |-> t, integration_method |-> method,
      harmonic |-> harmonic, frequency |-> Rat(1, 4), amplitude |-> R(1000)] :
        t \in {1, 2}, method \in DynamicMethods, harmonic \in BOOLEAN}

NextApi ==
    \/ \E node \in TrussNodes : add_node(node)
    \/ add_material(Steel)
    \/ add_section(Bar)
    \/ add_element(Element(1, "truss", <<1, 2>>))
    \/ add_load(AxialLoad)
    \/ add_constraint(FixAll)
    \/ \E request \in DynamicRequests : run_dynamic_analysis(request)

SpecApi == Init /\ [][NextApi]_vars

(***************************************************************************)
(* Properties.                                                             *)
(***************************************************************************)
Slots == 1..6

\* The (position, slot) pairs of the store whose mask bit is true.
TrueBits == {ps \in (1..Len(nodes)) \X Slots : nodes[ps[1]].dofs[ps[2]]}

\* The true bits met before slot j of the node at position p.
BitsBefore(p, j) == {ps \in TrueBits : ps[1] < p \/ (ps[1] = p /\ ps[2] < j)}

\* C1: after the store has been filled by add_node calls (re-adding an id
\* included) and _setup_dof_mapping has run, dof_map has exactly the ids of the
\* store, every active slot holds the number of active slots met before it in
\* insertion and slot order, every inactive slot holds -1, so the indices are
\* 0..N-1, each used once, and total_dofs is the number of true mask bits.
C1_DofMapDeterministic ==
    calls > 0 =>
        /\ DOMAIN dof_map = Ids(nodes)
        /\ \A p \in 1..Len(nodes) : \A j \in Slots :
              dof_map[nodes[p].id][j] =
                  IF nodes[p].dofs[j] THEN Cardinality(BitsBefore(p, j)) ELSE -1
        /\ total_dofs = Cardinality(TrueBits)
        /\ {dof_map[nodes[ps[1]].id][ps[2]] : ps \in TrueBits} = 0..(total_dofs - 1)

\* Node 2 was added before node 1 and has inactive slots; the map was built.
C1_Witness ==
    /\ calls > 0
    /\ Len(nodes) = 2 /\ nodes[1].id = 2 /\ nodes[1].dofs = Translations
    /\ total_dofs = 6
    /\ dof_map[2] = <<0, 1, 2, -1, -1, -1>>
    /\ dof_map[1] = <<3, 4, 5, -1, -1, -1>>

\* C2: whatever the store holds, each of the five analyses returns a record
\* that is a success with a payload or a failure with an error; no exception
\* leaves the call.
C2_NoExceptionEscapes ==
    calls > 0 => result.outcome \in {"success", "failure"}

\* C3: in the axial truss scenario (both nodes with six DOFs, node 1 fully
\* fixed, node 2 fixed except in x, axial load P on node 2) solve_static
\* succeeds with u_x(node 2) = P*L/(E*A) and r_x(node 1) = -P.
AxialScenario(mask) ==
    /\ Len(nodes) = 2 /\ \A p \in 1..2 : nodes[p].dofs = mask
    /\ materials = <<Steel>> /\ sections = <<Bar>>
    /\ elements = <<Element(1, "truss", <<1, 2>>)>>
    /\ loads = <<AxialLoad>>
    /\ Len(constraints) = 2 /\ {constraints[1], constraints[2]} = {FixAll, FixAllButX}

C3_AxialTruss ==
    (calls > 0 /\ result.op = "solve_static" /\ AxialScenario(AllTrue)) =>
        /\ result.outcome = "success"
        /\ displacements[dof_map[2][1] + 1] = Rat(1 * 1, Steel.E * Bar.A)
        /\ reactions[dof_map[1][1] + 1] = R(-1)

\* C4: for the constrained, loaded truss, solve_nonlinear_static succeeds within
\* two Newton iterations per load step (max_iterations is two) and leaves the
\* displacements of solve_static.
C4_NonlinearMatchesStatic ==
    (calls > 0 /\ result.op = "solve_nonlinear_static" /\ AxialScenario(Translations)) =>
        /\ result.outcome = "success"
        /\ displacements = static_run(FALSE).st.displacements

\* C5: a solve_static that directly follows a solve_static on the same store
\* rebuilds the same dof_map, total_dofs, K_global and F_global and gives the
\* same displacements, reactions, element forces and result.
StaticAgain ==
    (result.op = "solve_static" /\ calls' = calls + 1 /\ result'.op = "solve_static") =>
        /\ dof_map' = dof_map /\ total_dofs' = total_dofs
        /\ K_global' = K_global /\ F_global' = F_global
        /\ displacements' = displacements /\ reactions' = reactions
        /\ element_forces' = element_forces
        /\ result' = result

C5_StaticTwiceIdentical == [][StaticAgain]_vars

\* Two static runs of the loaded, constrained truss (no nonlinear run has left a
\* convergence history), the second one successful with the displacement
\* P*L/(E*A) + P/penalty of one run.
C5_Witness ==
    /\ calls = 2 /\ result.op = "solve_static" /\ result.outcome = "success"
    /\ convergence_history = <<>>
    /\ AxialScenario(Translations)
    /\ displacements[dof_map[2][1] + 1] = RAdd(Rat(1, 2), Rat(1, penalty))

\* C6: after a successful solve_static the reactions are zero at every active
\* DOF that no constraint fixes.
FixedDofs ==
    {dof_map[constraints[i].node_id][j] + 1 :
        <<i, j>> \in {ij \in (1..Len(constraints)) \X Slots :
                        constraints[ij[1]].dofs[ij[2]]}} \ {0}

C6_ReactionsOnlyAtConstraints ==
    (calls > 0 /\ result.op = "solve_static" /\ result.outcome = "success") =>
        \A d \in (1..total_dofs) \ FixedDofs : IsZero(reactions[d])

\* The store's stiffness assembles without an exception.
StiffnessAssembles ==
    assemble_global_stiffness(elements, nodes, materials, sections,
                              dof_map, total_dofs, K_global).exc = ""

\* C7: the assembled K_global is symmetric.
C7_StiffnessSymmetric ==
    calls > 0 => \A i \in 1..total_dofs : \A j \in 1..total_dofs :
                    K_global[i][j] = K_global[j][i]

\* A beam and a frame element on the same two nodes, in either order, assembled
\* with the coupling between v1 and theta_z1 in place.
C7_Witness ==
    /\ calls > 0 /\ Len(elements) = 2 /\ StiffnessAssembles /\ total_dofs = 12
    /\ ~IsZero(K_global[2][6]) /\ ~IsZero(K_global[3][11])

\* C8: the stiffness of a free beam model along global x maps the three rigid
\* translations and the three right-handed rigid rotations about the global
\* axes to the zero force vector.
\* The displacement field that gives slot j of the node at position p the value f[p][j].
Field(f) ==
    Vec([d \in 1..total_dofs |->
        LET ps == CHOOSE q \in TrueBits : dof_map[nodes[q[1]].id][q[2]] = d - 1
        IN  R(f[ps[1]][ps[2]])])

RigidTranslation(axis) ==
    Field([p \in 1..Len(nodes) |-> [j \in Slots |-> IF j = axis THEN 1 ELSE 0]])

\* u = theta x r with theta the unit vector of the axis, rotations equal to theta
RigidRotation(axis) ==
    Field([p \in 1..Len(nodes) |->
        LET x == nodes[p].x
            y == nodes[p].y
            z == nodes[p].z
        IN  IF axis = 1 THEN <<0, -z, y, 1, 0, 0>>
            ELSE IF axis = 2 THEN <<z, 0, -x, 0, 1, 0>>
            ELSE <<-y, x, 0, 0, 0, 1>>])

FreeBeamModel ==
    /\ calls > 0 /\ constraints = <<>> /\ Len(nodes) = 2 /\ elements # <<>>
    /\ StiffnessAssembles

C8_RigidBodyModes ==
    FreeBeamModel =>
        \A axis \in 1..3 :
            /\ SparseMatVec(K_global, RigidTranslation(axis)) = Zeros(total_dofs)
            /\ SparseMatVec(K_global, RigidRotation(axis)) = Zeros(total_dofs)

\* C9: after _assemble_global_mass, M_global is diagonal with non-negative
\* entries, every active translational DOF of a node holds half the mass
\* rho*A*L of each element attached to the node, every rotational DOF holds
\* zero, and nothing is left from an earlier assembly.
ElementMass(element) ==
    Get(materials, element.material_id).rho * Get(sections, element.section_id).A
        * ElementLength(Get(nodes, element.nodes[1]), Get(nodes, element.nodes[2]))

\* Half the mass of every element end that sits on the node.
AttachedHalfMass(node_id) ==
    SumSeq([e \in 1..Len(elements) |->
        SumSeq([k \in 1..Len(elements[e].nodes) |->
            IF elements[e].nodes[k] = node_id THEN Rat(ElementMass(elements[e]), 2)
            ELSE Zero])])

MassAssembled == calls > 0 /\ result.op = "solve_modal" /\ StiffnessAssembles

C9_LumpedMass ==
    MassAssembled =>
        /\ \A r \in 1..total_dofs : \A c \in 1..total_dofs :
              /\ r # c => IsZero(M_global[r][c])
              /\ r = c => ~RLess(M_global[r][c], Zero) /\ ~IsNaN(M_global[r][c])
        /\ \A ps \in TrueBits :
              LET d == dof_map[nodes[ps[1]].id][ps[2]] + 1
              IN  M_global[d][d] = IF ps[2] <= 3 THEN AttachedHalfMass(nodes[ps[1]].id)
                                   ELSE Zero

\* Two modal runs on two elements that share both nodes.
C9_Witness ==
    /\ MassAssembled /\ calls = 2 /\ Len(elements) = 2 /\ total_dofs = 12
    /\ M_global[1][1] = R(4) /\ IsZero(M_global[4][4])

\* C10: when every node has its three translations active, the trace of M_global
\* is a fixed multiple of the total mass, the sum of rho*A*L over the elements.
Trace(M) == SumSeq([d \in 1..Len(M) |-> M[d][d]])
RECURSIVE IntSum(_)
IntSum(s) == IF s = <<>> THEN 0 ELSE s[1] + IntSum(Tail(s))
TotalMass == IntSum([e \in 1..Len(elements) |-> ElementMass(elements[e])])
AllTranslationsActive ==
    \A p \in 1..Len(nodes) : \A j \in 1..3 : nodes[p].dofs[j]

\* C10 as stated: the trace is twice the total mass.
C10_TraceTwiceTotalMass ==
    (MassAssembled /\ AllTranslationsActive) => Trace(M_global) = R(2 * TotalMass)

\* C10 amended: the trace is three times the total mass (each of the three
\* translations of the two ends carries half of every element's mass).
C10_TraceThriceTotalMass ==
    (MassAssembled /\ AllTranslationsActive) => Trace(M_global) = R(3 * TotalMass)

C10_Witness ==
    /\ MassAssembled /\ AllTranslationsActive /\ Len(elements) = 1
    /\ TotalMass = 4 /\ Trace(M_global) = R(12)

(***************************************************************************)
(* Time integration.                                                       *)
(***************************************************************************)
DynamicSuccess == result.op = "solve_dynamic_response" /\ result.outcome = "success"

\* n is floor(total_time / time_step): n * dt <= T < (n + 1) * dt.
IsStepCount(n, payload) ==
    /\ ~RLess(payload.total_time, RMul(R(n), payload.time_step))
    /\ RLess(payload.total_time, RMul(R(n + 1), payload.time_step))

C12_NoIndexFailure ==
    result.op = "solve_dynamic_response" =>
        ~(result.outcome = "failure" /\ result.error = "IndexError")

(***************************************************************************)
(* Eigenvalue analyses.                                                    *)
(***************************************************************************)
ModalSuccess == result.op = "solve_modal" /\ result.outcome = "success"

\* C13: a successful solve_modal with k requested modes on N active DOFs returns
\* frequencies as a list of k values, mode_shapes as a list of k vectors of
\* length N each (one vector per mode), and num_modes = k.  A nested list is
\* given by its shape <<outer length, inner length>>.
C13_ModeShapesOnePerMode ==
    ModalSuccess =>
        /\ result.payload.frequencies = <<result.payload.num_modes>>
        /\ result.payload.mode_shapes = <<result.payload.num_modes, total_dofs>>

\* A buckling analysis that directly follows a successful static analysis whose
\* displacements are finite and not all zero: the model's loads have a linear
\* static solution that stresses the structure.
BucklingAfterStaticSolution ==
    /\ result.op = "solve_static" /\ result.outcome = "success"
    /\ ~IsNaN(MaxAbs(displacements)) /\ ~IsZero(MaxAbs(displacements))
    /\ calls' = calls + 1 /\ result'.op = "solve_buckling_analysis"

\* C14: the critical load factors solve (K + lambda * K_g) * phi = 0 where K_g is
\* assembled from a preliminary linear static solution under the model's loads:
\* when that solution is not zero, the K_g that solve_buckling_analysis hands to
\* the eigenvalue solver is not the zero matrix, and the call returns the
\* factors.
C14_GeometricStiffnessFromStaticSolution ==
    [][BucklingAfterStaticSolution =>
           /\ assemble_geometric_stiffness(total_dofs') # ZeroMatrix(total_dofs')
           /\ result'.outcome = "success"]_vars

(***************************************************************************)
(* The results kept on the engine.                                         *)
(***************************************************************************)
\* A successful static or nonlinear run that comes after a successful static run
\* (so that reactions holds a vector), the store possibly having grown between
\* the two.
SuccessfulRerun ==
    /\ result.op = "solve_static" /\ result.outcome = "success"
    /\ calls' = calls + 1
    /\ result'.op \in {"solve_static", "solve_nonlinear_static"}
    /\ result'.outcome = "success"

\* C15: after a successful solve_static or solve_nonlinear_static, displacements,
\* reactions and every entry of element_forces are those of that run: the
\* displacements are the ones it returned, the reactions are K_global @
\* displacements - F_global of its operators, and the element forces are those of
\* its displacements; nothing of an earlier run remains.
C15_ResultsOfLatestRun ==
    [][SuccessfulRerun =>
           /\ displacements' = result'.payload.displacements
           /\ reactions' = Reactions(K_global', displacements', F_global')
           /\ element_forces' =
                  calculate_element_forces(elements', <<>>, displacements', nodes',
                                           materials', sections', dof_map').ef]_vars

(***************************************************************************)
(* The store.                                                              *)
(***************************************************************************)
\* Every entity of collection d is, with all its attributes, in collection e.
KeptIn(d, e) == \A i \in 1..Len(d) : \E j \in 1..Len(e) : e[j] = d[i]

\* C16: no add_* call and no analysis removes or replaces an entity added before,
\* also when an id is supplied a second time for the same kind: every step keeps
\* every node, material, section, element, load and constraint of the store
\* with the attributes it was added with.
C16_EntitiesKept ==
    [][/\ KeptIn(nodes, nodes') /\ KeptIn(materials, materials')
       /\ KeptIn(sections, sections') /\ KeptIn(elements, elements')
       /\ KeptIn(loads, loads') /\ KeptIn(constraints, constraints')]_vars

(***************************************************************************)
(* The Newton iterations.                                                  *)
(***************************************************************************)
\* C17: when the caller sets a cancellation flag while solve_nonlinear_static is
\* running, the solver finishes the current Newton iteration, runs no further
\* one and returns a cancelled outcome.  Every nonlinear run of SpecRerun has the
\* flag set during its first iteration: a run that has reached that iteration
\* records the residual norm of that iteration only and does not return success
\* or failure.
C17_CancellationStopsTheRun ==
    (calls > 0 /\ result.op = "solve_nonlinear_static" /\ Len(convergence_history) >= 1)
        => (result.outcome = "cancelled" /\ Len(convergence_history) = 1)

\* A nonlinear run that ended because a load step used max_iterations Newton
\* iterations without converging.
NoConvergence ==
    /\ calls > 0 /\ result.op = "solve_nonlinear_static"
    /\ result.outcome = "failure" /\ result.error = "No convergence"

\* What the returned record holds besides the outcome and the error text.
Details == DOMAIN result \ {"op", "outcome", "error"}

\* C18: when a load step uses max_iterations Newton iterations without
\* converging, the solver stops at that step and the failure it returns reports
\* the last residual norm (the last entry of convergence_history) and includes
\* the state of the last converged load step (a displacement vector of
\* total_dofs entries).
C18_FailureReportsResidualAndState ==
    NoConvergence =>
        /\ \E f \in Details : result[f] = convergence_history[Len(convergence_history)]
        /\ \E f \in Details : Len(result[f]) = total_dofs

(***************************************************************************)
(* Assembly over inactive DOFs.                                            *)
(***************************************************************************)
\* Every element of the store has its two nodes, its material and its section.
StoreComplete ==
    \A e \in 1..Len(elements) :
        /\ Len(elements[e].nodes) = 2
        /\ ~LookupError(elements[e], nodes, materials, sections)

\* The DOF index of each row of an element matrix: the twelve slots of the two
\* nodes for a 12 x 12 matrix, their six translations for the 6 x 6 truss matrix.
RowDofs(ke) ==
    IF Len(ke.k) = Len(ke.dofs) THEN ke.dofs
    ELSE <<ke.dofs[1], ke.dofs[2], ke.dofs[3], ke.dofs[7], ke.dofs[8], ke.dofs[9]>>

\* What element e adds to position (i, j): the entries K_e[a][b] whose row DOF is
\* i and whose column DOF is j (0-based), both active.
ActiveEntries(e, i, j) ==
    LET ke == get_element_stiffness_matrix(elements[e], nodes, materials, sections,
                                           dof_map)
    IN  SumSeq([a \in 1..Len(ke.k) |-> SumSeq([b \in 1..Len(ke.k) |->
            IF RowDofs(ke)[a] = i /\ RowDofs(ke)[b] = j THEN ke.k[a][b] ELSE Zero])])

SomeDofInactive ==
    \E e \in 1..Len(elements) : \E n \in 1..2 : \E slot \in 1..6 :
        dof_map[elements[e].nodes[n]][slot] = -1

\* C19: with elements some of whose node DOFs are inactive, the assembly
\* succeeds and K_global holds, at every position, the sum over the elements of
\* the entries K_e[a][b] whose row and column DOFs are active and are that
\* position; the other entries are skipped.
C19_InactiveDofsSkipped ==
    (calls > 0 /\ StoreComplete /\ SomeDofInactive) =>
        K_global = Vec([i \in 1..total_dofs |-> Vec([j \in 1..total_dofs |->
                       SumSeq([e \in 1..Len(elements) |->
                                  ActiveEntries(e, i - 1, j - 1)])])])

(***************************************************************************)
(* The assembled operators.                                                *)
(***************************************************************************)
\* The store assembles: neither the stiffness nor the force assembly raises.
Assembles ==
    /\ StiffnessAssembles
    /\ assemble_global_force(loads, dof_map, total_dofs).exc = ""

\* C20: constraint application works on copies: after any static or nonlinear
\* analysis of a store that assembles, K_global and F_global are the assembled,
\* un-penalized stiffness and force of the store.
C20_OperatorsUnpenalized ==
    (calls > 0 /\ Assembles) =>
        /\ K_global = assemble_global_stiffness(elements, nodes, materials, sections,
                                                dof_map, total_dofs, K_global).K
        /\ F_global = assemble_global_force(loads, dof_map, total_dofs).F

\* A successful static run of the truss with both constraints, which put the
\* penalty on five diagonal entries of the copy; K_global keeps E*A/L there.
C20_Witness ==
    /\ calls > 0 /\ Assembles /\ AxialScenario(Translations)
    /\ result.op = "solve_static" /\ result.outcome = "success"
    /\ K_global[1][1] = R(2)
    /\ apply_constraints(K_global, F_global, constraints, dof_map).K[1][1]
           = R(2 + penalty)

(***************************************************************************)
(* The penalized system.                                                   *)
(***************************************************************************)
\* The (constraint, slot) pairs that fix the active DOF d (1-based position).
Fixing(d) ==
    {cs \in (1..Len(constraints)) \X Slots :
        /\ constraints[cs[1]].dofs[cs[2]]
        /\ dof_map[constraints[cs[1]].node_id][cs[2]] = d - 1}

\* The sum of the prescribed values of the pairs in S.
RECURSIVE PrescribedSum(_)
PrescribedSum(S) ==
    IF S = {} THEN 0
    ELSE LET cs == CHOOSE x \in S : TRUE
         IN  constraints[cs[1]].values[cs[2]] + PrescribedSum(S \ {cs})

\* An analysis has assembled the store and every constraint names a node of it.
Constrainable ==
    /\ calls > 0 /\ Assembles
    /\ \A c \in 1..Len(constraints) : Has(nodes, constraints[c].node_id)

\* C21: the penalized system differs from the assembled one only on constrained
\* active DOFs: K_c - K is diagonal with kappa times the number of constraints
\* fixing the DOF, F_c - F is kappa times the sum of their prescribed values,
\* constraints on inactive DOFs change nothing; and the static displacement at
\* a DOF fixed by one constraint is its prescribed value minus the reaction
\* divided by kappa.
C21_PenaltyOnConstrainedDofsOnly ==
    Constrainable =>
        LET c == apply_constraints(K_global, F_global, constraints, dof_map)
        IN  /\ \A i \in 1..total_dofs : \A j \in 1..total_dofs :
                   c.K[i][j] = RAdd(K_global[i][j],
                                    IF i = j THEN R(penalty * Cardinality(Fixing(i)))
                                    ELSE Zero)
            /\ \A i \in 1..total_dofs :
                   c.F[i] = RAdd(F_global[i], R(penalty * PrescribedSum(Fixing(i))))
            /\ (result.op = "solve_static" /\ result.outcome = "success") =>
                   \A d \in 1..total_dofs :
                       (Cardinality(Fixing(d)) = 1 /\ ~IsNaN(MaxAbs(displacements))) =>
                           displacements[d] = RSub(R(PrescribedSum(Fixing(d))),
                                                   RDiv(reactions[d], R(penalty)))

\* A successful static run of the truss with node 1 fixed and node 2 held with
\* u_x prescribed to 1 (six of the twelve fixed slots are inactive): the penalty
\* is on the six active DOFs, and u_x of node 2 is 1 minus the reaction over
\* kappa.
C21_Witness ==
    /\ Constrainable /\ result.op = "solve_static" /\ result.outcome = "success"
    /\ Len(elements) = 1 /\ total_dofs = 6
    /\ Len(constraints) = 2 /\ {constraints[1], constraints[2]} = {FixAll, PrescribeX}
    /\ Cardinality({d \in 1..total_dofs : Fixing(d) # {}}) = 6
    /\ \E d \in 1..total_dofs :
           /\ PrescribedSum(Fixing(d)) = 1
           /\ ~IsNaN(displacements[d]) /\ ~IsZero(reactions[d])
           /\ displacements[d] = RSub(R(1), RDiv(reactions[d], R(penalty)))

(***************************************************************************)
(* The assembled force vector.                                             *)
(***************************************************************************)
\* The (load, component) pairs aimed at the active DOF d.
Loading(d) ==
    {lc \in (1..Len(loads)) \X Slots :
        /\ loads[lc[1]].node_id # NoId
        /\ dof_map[loads[lc[1]].node_id][lc[2]] = d - 1}

\* The sum of the load values of the pairs in S.
RECURSIVE LoadSum(_)
LoadSum(S) ==
    IF S = {} THEN 0
    ELSE LET lc == CHOOSE x \in S : TRUE
         IN  loads[lc[1]].values[lc[2]] + LoadSum(S \ {lc})

\* The last analysis the bounds allow has run, so the store has not changed
\* since F_global was assembled.
ForceAssembled == calls = MaxCalls /\ result.op = "solve_static" /\ Assembles

\* C22: after _assemble_global_force, F_global[d] of every active DOF d is the
\* sum of values[i] over the loads whose node_id is a node n with
\* dof_map[n][i] = d; components aimed at inactive DOFs and loads without
\* node_id add nothing, and F is rebuilt from zero in each call (what an earlier
\* analysis assembled is not accumulated).
C22_ForceIsSumOfNodalLoads ==
    ForceAssembled =>
        /\ Len(F_global) = total_dofs
        /\ \A d \in 1..total_dofs : F_global[d] = R(LoadSum(Loading(d)))

\* The second analysis of the two-node truss, with a moment on an inactive
\* rotation in the first load and a force on an active DOF in the second.
C22_Witness ==
    /\ ForceAssembled /\ total_dofs = 6 /\ Len(loads) = 2
    /\ loads[2] = AxialLoad
    /\ loads[1] \in {MomentLoad, MixedLoad}
    /\ F_global[4] = R(1)
    /\ \E d \in 1..total_dofs : Cardinality(Loading(d)) = 1

(***************************************************************************)
(* The load steps of the nonlinear analysis.                               *)
(***************************************************************************)
NonlinearSuccess ==
    /\ calls > 0 /\ result.op = "solve_nonlinear_static"
    /\ result.outcome = "success"

\* C23: a successful solve_nonlinear_static with S load steps leaves S entries in
\* the load-displacement curve, one per step, the entry of step s holding the
\* load factor s/S, and returns the load factor 1.
C23_LoadFactorIsStepOverSteps ==
    NonlinearSuccess =>
        /\ result.payload.load_factor = FloatDiv(1, 1)
        /\ \A s \in 1..Len(load_displacement_curve) :
               load_displacement_curve[s][1] = FloatDiv(s, Len(load_displacement_curve))

(***************************************************************************)
(* The line search.                                                        *)
(***************************************************************************)
\* The run made its one iteration and called _line_search: the residual check
\* failed and spsolve gave a du without NaN.
FirstIncrement ==
    spsolve(apply_constraints_nonlinear(K_global, F_global, constraints, dof_map).K,
            apply_constraints_nonlinear(K_global, F_global, constraints, dof_map).F)

LineSearched ==
    /\ Constrainable /\ total_dofs > 0
    /\ result.op = "solve_nonlinear_static" /\ result.outcome = "failure"
    /\ result.error = "No convergence"
    /\ ~IsNaN(MaxAbs(FirstIncrement))

\* target_force - K (u + alpha du) at u = 0, and the same after
\* _apply_constraints_nonlinear
Residual(alpha) == VSub(F_global, SparseMatVec(K_global, VScale(alpha, FirstIncrement)))
ConstrainedResidual(alpha) ==
    apply_constraints_nonlinear(K_global, Residual(alpha), constraints, dof_map).F

RECURSIVE Halved(_)
Halved(k) == IF k = 0 THEN R(1) ELSE RMul(Rat(1, 2), Halved(k - 1))

\* The first alpha = 2^-k, k in 0..9, with |res(alpha)| < (1 - c1 alpha) |res(0)|,
\* and 2^-10 when there is none.
SufficientDecrease(res(_), k) ==
    NormLess(SqNorm(res(Halved(k))), RSub(R(1), RMul(c1, Halved(k))), SqNorm(res(Zero)))

FirstAlpha(res(_)) ==
    IF \E k \in 0..(LineSearchIterations - 1) : SufficientDecrease(res, k)
    THEN Halved(CHOOSE k \in 0..(LineSearchIterations - 1) :
                    /\ SufficientDecrease(res, k)
                    /\ \A j \in 0..(k - 1) : ~SufficientDecrease(res, j))
    ELSE Halved(LineSearchIterations)

\* C24 as stated: _line_search returns the first alpha = 2^-k, k in 0..9, that
\* gives a sufficient decrease of the constrained residual R_c of the Newton
\* convergence test, and 2^-10 when no tested alpha does.
C24_LineSearchOnConstrainedResidual ==
    LineSearched =>
        line_search(K_global, Zeros(total_dofs), FirstIncrement, F_global)
            = FirstAlpha(ConstrainedResidual)

\* C24: _line_search returns the first alpha = 2^-k, k in 0..9, for which the
\* norm of the residual target_force - K (u + alpha du), without the penalty
\* terms, is strictly less than (1 - c1 alpha) times the norm of that residual
\* at u, and 2^-10 when no tested alpha satisfies the condition.
C24_LineSearchOnResidual ==
    LineSearched =>
        line_search(K_global, Zeros(total_dofs), FirstIncrement, F_global)
            = FirstAlpha(Residual)

\* The element between a held node and a node with a prescribed displacement,
\* without load: the residual at u = 0 is zero, no alpha decreases it and the
\* search returns 2^-10, where the constrained residual decreases with alpha = 1.
C24_Witness ==
    /\ LineSearched /\ Len(elements) = 1
    /\ Len(loads) = 0 /\ Len(constraints) = 2
    /\ {constraints[1], constraints[2]} = {FixAll, PrescribeX}
    /\ line_search(K_global, Zeros(total_dofs), FirstIncrement, F_global)
           = Halved(LineSearchIterations)
    /\ FirstAlpha(ConstrainedResidual) = R(1)

(***************************************************************************)
(* The orientation of beam and frame elements.                             *)
(***************************************************************************)
\* An analysis has assembled one beam or frame element whose axis is global Y.
OneElementAlongY ==
    /\ calls > 0 /\ StiffnessAssembles /\ Len(elements) = 1
    /\ Get(nodes, elements[1].nodes[1]).x = Get(nodes, elements[1].nodes[2]).x
    /\ Get(nodes, elements[1].nodes[1]).z = Get(nodes, elements[1].nodes[2]).z
    /\ Get(nodes, elements[1].nodes[1]).y # Get(nodes, elements[1].nodes[2]).y

\* E A / L of the element
AxialStiffness ==
    RDiv(R(Get(materials, elements[1].material_id).E
             * Get(sections, elements[1].section_id).A),
         R(ElementLength(Get(nodes, elements[1].nodes[1]),
                         Get(nodes, elements[1].nodes[2]))))

\* The position in K_global of displacement component i of end n of the element.
EndDof(n, i) == dof_map[elements[1].nodes[n]][i] + 1

\* C25: the beam/frame matrix in global coordinates is T^T K_local T with T from
\* the orientation of the element: for an element along global Y the axial
\* stiffness EA/L couples the u_y components of its two nodes, not the u_x ones.
C25_AxialStiffnessAlongElementAxis ==
    OneElementAlongY =>
        /\ K_global[EndDof(1, 2)][EndDof(1, 2)] = AxialStiffness
        /\ K_global[EndDof(1, 2)][EndDof(2, 2)] = RNeg(AxialStiffness)
        /\ K_global[EndDof(1, 1)][EndDof(2, 1)] # RNeg(AxialStiffness)

(***************************************************************************)
(* The histories of the central difference integration.                    *)
(***************************************************************************)
\* (v_{i+1} - v_i) / dt, the a_i of the update v_{i+1} = v_i + dt a_i; rows are
\* counted from 1, row i + 1 holding what belongs to t_i.
StepAcceleration(payload, i) ==
    VScale(RDiv(R(1), payload.time_step),
           VSub(payload.velocity_history[i + 2], payload.velocity_history[i + 1]))

ConstrainedStiffness ==
    apply_constraints(K_global, Zeros(total_dofs), constraints, dof_map).K

\* A modal analysis has assembled the stiffness and the mass of a store with
\* constraints on active DOFs.
ModalOfConstrainedModel ==
    /\ Constrainable /\ result.op = "solve_modal" /\ Len(elements) > 0
    /\ assemble_global_mass(elements, nodes, materials, sections, dof_map,
                            total_dofs).exc = ""
    /\ \E d \in 1..total_dofs : Fixing(d) # {}

\* C27: solve_modal applies the constraints of the model before the eigen solve:
\* the eigenvalue solver is handed the constrained stiffness, so a modal analysis
\* for one mode succeeds exactly when the eigen solve of the constrained
\* operators does.
C27_ConstraintsAppliedBeforeEigenSolve ==
    ModalOfConstrainedModel =>
        (result.outcome = "success"
            <=> eigsh(ConstrainedStiffness, 1, M_global).exc = "")

(***************************************************************************)
(* The dynamic analysis endpoint.                                          *)
(***************************************************************************)
\* A step of run_dynamic_analysis: the first analysis of a built engine.
DynamicRequestStep ==
    calls = 0 /\ calls' = 1 /\ result'.op = "solve_dynamic_response"

\* C28: the force history run_dynamic_analysis hands to solve_dynamic_response
\* has as many columns as the solver has active DOFs for the same engine: the
\* total_dofs the endpoint reads when it sizes the history is the total_dofs the
\* solver's _setup_dof_mapping computes.
C28_ForceHistorySizedByActiveDofs ==
    [][DynamicRequestStep =>
         \A request \in DynamicRequests :
             \A k \in 1..Len(time_history(request, total_dofs)) :
                 Len(time_history(request, total_dofs)[k]) = total_dofs']_<<calls, total_dofs>>


(***************************************************************************)
(* The convergence history.                                                *)
(***************************************************************************)
NonlinearRan == calls > 0 /\ result.op = "solve_nonlinear_static"

\* The entries of the history that pass the convergence test.
ConvergedAt ==
    {i \in 1..Len(convergence_history) :
        NormLess(convergence_history[i], Rat(1, ToleranceDenominator), R(1))}

\* The last entry before entry i that passes the test, 0 when there is none.
LastConvergedBefore(i) ==
    CHOOSE j \in {0} \cup {c \in ConvergedAt : c < i} :
        \A c \in ConvergedAt : c < i => c <= j

\* The entries after the last one that passes the test.
Trailing == Len(convergence_history) - LastConvergedBefore(Len(convergence_history) + 1)

\* The residual norm of the first iteration of the first of load_step_count steps.
FirstResidual(load_step_count) ==
    SqNorm(apply_constraints_nonlinear(
               K_global, VScale(Rat(1, load_step_count), F_global),
               constraints, dof_map).F)

\* The history of a call with the given options that got past its set-up: one
\* entry per iteration, so every load step that converged ends with the one
\* entry that passes the test, at most max_iterations entries after the entry
\* that ended the step before; a step that did not converge leaves
\* max_iterations entries none of which passes the test.
HistoryOfRun(max_iterations, load_step_count) ==
    /\ Len(convergence_history) > 0
    /\ convergence_history[1] = FirstResidual(load_step_count)
    /\ \A i \in ConvergedAt : i - LastConvergedBefore(i) <= max_iterations
    /\ CASE result.outcome = "success" ->
               /\ Cardinality(ConvergedAt) = load_step_count
               /\ Len(load_displacement_curve) = load_step_count
               /\ Trailing = 0
               /\ result.payload.convergence_history = convergence_history
         [] result.outcome = "failure" /\ result.error = "No convergence" ->
               /\ Cardinality(ConvergedAt) = Len(load_displacement_curve)
               /\ Len(load_displacement_curve) < load_step_count
               /\ Trailing = max_iterations
         [] OTHER ->
               /\ Cardinality(ConvergedAt) = Len(load_displacement_curve) + 1
               /\ total_dofs = 0 /\ Trailing = 0

\* A step of solve_nonlinear_static whose set-up raises.
SetupFailure ==
    /\ calls' = calls + 1 /\ result'.op = "solve_nonlinear_static"
    /\ \/ assemble_global_stiffness(elements', nodes', materials', sections',
                                    dof_map', total_dofs', K_global').exc # ""
       \/ assemble_global_force(loads', dof_map', total_dofs').exc # ""

\* C29 as stated: convergence_history holds one residual norm per Newton
\* iteration of the current call, in execution order, the converging iteration
\* included, and is emptied at the start of every call: after a call that got
\* past its set-up it is the history of a run, and after a call whose set-up
\* raised, in which no iteration was executed, it is empty.  The states are
\* those the last call of the engine leaves, which no add_load has changed.
C29_HistoryOfCurrentCall ==
    (NonlinearRan /\ calls = MaxCalls) =>
        IF Assembles
        THEN \E run \in HistoryRuns : HistoryOfRun(run[1], run[2])
        ELSE convergence_history = <<>>

\* C29, amended: after a call that got past its set-up convergence_history is
\* the history of the run, and a call whose set-up raises leaves the history as
\* it was (the history is emptied after the set-up, not at the start).
C29_HistoryEmptiedAfterSetup ==
    /\ []((NonlinearRan /\ Assembles) =>
             \E run \in HistoryRuns : HistoryOfRun(run[1], run[2]))
    /\ [][SetupFailure => convergence_history' = convergence_history]_vars

\* A call of two load steps converged in the second iteration of each step, and
\* the history holds the four residual norms.
C29_Witness ==
    /\ NonlinearRan /\ Assembles /\ result.outcome = "success"
    /\ Len(load_displacement_curve) = 2 /\ Len(convergence_history) = 4
    /\ ConvergedAt = {2, 4}


(***************************************************************************)
(* The results summary.                                                    *)
(***************************************************************************)
\* The last call was a solve_static or solve_nonlinear_static that stored its
\* displacements on the engine.
DisplacementsSet ==
    /\ calls > 0 /\ result.op \in {"solve_static", "solve_nonlinear_static"}
    /\ result.outcome = "success"

\* C30: whenever displacements is set its length is total_dofs: after every
\* solver call on an engine that holds displacements, whatever add_* calls came
\* before it, the displacements the engine holds have total_dofs entries.
C30_DisplacementsMatchTotalDofs ==
    [][(DisplacementsSet /\ calls' = calls + 1) =>
           Len(displacements') = total_dofs']_<<calls, total_dofs>>
====
